---- MODULE Spec2Model ----
(***************************************************************************)
(* Model of the ML service of the campus security system                   *)
(* (src/ml-service/main.py): the three string metrics, the composite field *)
(* scorer, the pairwise weighted aggregate of /similarity/calculate and    *)
(* the all-pairs loop of /batch/entity-resolution.                         *)
(*                                                                         *)
(* Strings are sequences of one-character strings.  Similarities are exact *)
(* rationals <<numerator, denominator>> in lowest terms with a positive    *)
(* denominator; the rounding of the float64 arithmetic of the code is not  *)
(* modelled.                                                               *)
(***************************************************************************)
EXTENDS Integers, Sequences, FiniteSets, TLC

VARIABLES
    s1, s2,         \* arguments of a direct call of a string metric
    called,         \* the metric that was called ("none" before the call)
    returned,       \* the value the metric returned
    record1, record2, algorithm,  \* the SimilarityRequest
    response,       \* the SimilarityResponse ([status |-> "none"] before)
    entities,       \* the request body of /batch/entity-resolution
    i, j,           \* loop positions of batch_entity_resolution (0-based)
    results,        \* the list `results` of batch_entity_resolution
    scored,         \* history: the position pairs handed to composite_similarity,
                    \* each with its field scores and its weighted_score
    pc,             \* control state of batch_entity_resolution
    variant,        \* the service whose gallery is modelled: "main" (MLService)
                    \* or "simple" (SimpleFaceService)
    face_embeddings,          \* the gallery matrix, NoMatrix for None
    face_meta,                \* the metadata list
    face_embeddings_normed,   \* MLService._face_embeddings_normed
    embedding_dim,            \* SimpleFaceService.embedding_dim
    last_op,        \* history: the last load, query or embedding call and its input
    match_result,   \* what the last match_face_embedding gave its caller
    generated,      \* history: the embedding calls made, each with its vector
    threads         \* the calls of the main service that run at the same time:
                    \* for each thread its position and its local variables

metricVars == <<s1, s2, called, returned>>
pairVars   == <<record1, record2, algorithm, response>>
batchVars  == <<entities, i, j, results, scored, pc>>
faceVars   == <<variant, face_embeddings, face_meta, face_embeddings_normed,
                embedding_dim, last_op, match_result, generated, threads>>
vars == <<s1, s2, called, returned, record1, record2, algorithm, response,
          entities, i, j, results, scored, pc,
          variant, face_embeddings, face_meta, face_embeddings_normed,
          embedding_dim, last_op, match_result, generated, threads>>

-----------------------------------------------------------------------------
(* Bounds *)

\* longest enumerated argument of a string metric
MaxLen == 4

\* largest number of records in a batch
MaxBatch == 3

-----------------------------------------------------------------------------
(* Exact rational arithmetic *)

Abs(n) == IF n < 0 THEN -n ELSE n

Max(a, b) == IF a >= b THEN a ELSE b

Min(a, b) == IF a <= b THEN a ELSE b

RECURSIVE GCD(_, _)
GCD(a, b) == IF b = 0 THEN a ELSE GCD(b, a % b)

\* n/d in lowest terms, d > 0
Rat(n, d) == LET g == GCD(Abs(n), d) IN <<n \div g, d \div g>>

Zero == <<0, 1>>

One == <<1, 1>>

RatAdd(p, q) == Rat(p[1] * q[2] + q[1] * p[2], p[2] * q[2])

RatSub(p, q) == Rat(p[1] * q[2] - q[1] * p[2], p[2] * q[2])

RatMul(p, q) == Rat(p[1] * q[1], p[2] * q[2])

\* p / q for q > 0
RatDiv(p, q) == Rat(p[1] * q[2], p[2] * q[1])

RatLeq(p, q) == p[1] * q[2] <= q[1] * p[2]

RatLt(p, q) == p[1] * q[2] < q[1] * p[2]

InUnitInterval(p) == RatLeq(Zero, p) /\ RatLeq(p, One)

-----------------------------------------------------------------------------
(* Strings *)

Alphabet == {"a", "b"}

StringsUpTo(n) == UNION {[1..k -> Alphabet] : k \in 0..n}

MARTHA == <<"M", "A", "R", "T", "H", "A">>

MARHTA == <<"M", "A", "R", "H", "T", "A">>

kitten == <<"k", "i", "t", "t", "e", "n">>

sitting == <<"s", "i", "t", "t", "i", "n", "g">>

ReferenceStrings == {MARTHA, MARHTA, kitten, sitting}

Strings == StringsUpTo(MaxLen) \cup ReferenceStrings

-----------------------------------------------------------------------------
(* MLService.jaro_winkler_similarity *)

\* the inner `for j in range(start, end)` loop: the first position of s2 in
\* the window that is unmatched and carries the character c, 0 when none
RECURSIVE FindMatch(_, _, _, _, _)
FindMatch(c, b, s2_matches, jj, end) ==
    IF jj > end THEN 0
    ELSE IF s2_matches[jj] \/ c # b[jj]
         THEN FindMatch(c, b, s2_matches, jj + 1, end)
         ELSE jj

\* the outer `for i in range(len1)` loop of the match search, from position ii
RECURSIVE MatchLoop(_, _, _, _, _)
MatchLoop(a, b, max_dist, ii, st) ==
    IF ii > Len(a) THEN st
    ELSE LET start == Max(1, ii - max_dist)
             end   == Min(ii + max_dist, Len(b))
             jj    == FindMatch(a[ii], b, st.s2_matches, start, end)
         IN  IF jj = 0
             THEN MatchLoop(a, b, max_dist, ii + 1, st)
             ELSE MatchLoop(a, b, max_dist, ii + 1,
                            [matches    |-> st.matches + 1,
                             s1_matches |-> [st.s1_matches EXCEPT ![ii] = TRUE],
                             s2_matches |-> [st.s2_matches EXCEPT ![jj] = TRUE]])

\* `while not s2_matches[k]: k += 1`
RECURSIVE SkipUnmatched(_, _)
SkipUnmatched(s2_matches, k) ==
    IF s2_matches[k] THEN k ELSE SkipUnmatched(s2_matches, k + 1)

\* the transposition loop, from position ii of s1 with pointer k into s2
RECURSIVE TranspositionLoop(_, _, _, _, _, _)
TranspositionLoop(a, b, st, ii, k, transpositions) ==
    IF ii > Len(a) THEN transpositions
    ELSE IF ~st.s1_matches[ii]
         THEN TranspositionLoop(a, b, st, ii + 1, k, transpositions)
         ELSE LET k2 == SkipUnmatched(st.s2_matches, k)
              IN  TranspositionLoop(a, b, st, ii + 1, k2 + 1,
                     IF a[ii] # b[k2] THEN transpositions + 1 ELSE transpositions)

\* the prefix loop: length of the common prefix, at most 4 characters
RECURSIVE PrefixLoop(_, _, _)
PrefixLoop(a, b, ii) ==
    IF ii > Min(Min(Len(a), Len(b)), 4) THEN 0
    ELSE IF a[ii] = b[ii] THEN 1 + PrefixLoop(a, b, ii + 1) ELSE 0

\* variant of MatchWindow: the window taken from the first string alone
MatchWindow_FirstOnly(len1, len2) == len1 \div 2 - 1

\* max_dist = max(len1, len2) // 2 - 1
MatchWindow(len1, len2) == Max(len1, len2) \div 2 - 1

\* the state of the match search after its outer loop
JaroMatchState(a, b) ==
    MatchLoop(a, b, MatchWindow(Len(a), Len(b)), 1,
              [matches    |-> 0,
               s1_matches |-> [x \in 1..Len(a) |-> FALSE],
               s2_matches |-> [x \in 1..Len(b) |-> FALSE]])

\* variant of Jaro: a whole transposition for every out-of-order character
Jaro_WholeTranspositions(matches, transpositions, len1, len2) ==
    RatDiv(RatAdd(RatAdd(Rat(matches, len1), Rat(matches, len2)),
                  Rat(matches - transpositions, matches)),
           <<3, 1>>)

\* jaro = (matches/len1 + matches/len2 + (matches - transpositions/2)/matches) / 3
Jaro(matches, transpositions, len1, len2) ==
    RatDiv(RatAdd(RatAdd(Rat(matches, len1), Rat(matches, len2)),
                  Rat(2 * matches - transpositions, 2 * matches)),
           <<3, 1>>)

\* variant of WinklerBonus: the bonus is not scaled by (1 - jaro)
WinklerBonus_Unscaled(jaro, prefix) == RatAdd(jaro, Rat(prefix, 10))

\* jaro + (0.1 * prefix * (1 - jaro))
WinklerBonus(jaro, prefix) ==
    RatAdd(jaro, RatMul(Rat(prefix, 10), RatSub(One, jaro)))

\* variant of WindowTooSmall: only a negative window is too small
WindowTooSmall_Negative(max_dist) == max_dist < 0

\* if max_dist < 1
WindowTooSmall(max_dist) == max_dist < 1

jaro_winkler_similarity(a, b) ==
    IF a = <<>> \/ b = <<>> THEN Zero
    ELSE IF a = b THEN One
    ELSE LET len1 == Len(a)
             len2 == Len(b)
             max_dist == MatchWindow(len1, len2)
         IN  IF WindowTooSmall(max_dist) THEN (IF a = b THEN One ELSE Zero)
             ELSE LET st == JaroMatchState(a, b)
                      matches == st.matches
                  IN  IF matches = 0 THEN Zero
                      ELSE WinklerBonus(Jaro(matches,
                                             TranspositionLoop(a, b, st, 1, 1, 0),
                                             len1, len2),
                                        PrefixLoop(a, b, 1))

-----------------------------------------------------------------------------
(* MLService.levenshtein_similarity *)

Min3(x, y, z) == Min(Min(x, y), z)

\* variant of FillRow: the insertion candidate is left out of the minimum
RECURSIVE FillRow_NoInsertion(_, _, _, _, _, _)
FillRow_NoInsertion(a, b, r, prev, row, jj) ==
    IF jj > Len(b) THEN row
    ELSE LET cost == IF a[r] = b[jj] THEN 0 ELSE 1
             cell == Min(prev[jj + 1] + 1, prev[jj] + cost)
         IN  FillRow_NoInsertion(a, b, r, prev, Append(row, cell), jj + 1)

\* one row of the distance matrix, filled left to right from column jj;
\* prev is row r-1 and row holds the cells of row r filled so far
\* (index c+1 holds matrix[r][c])
RECURSIVE FillRow(_, _, _, _, _, _)
FillRow(a, b, r, prev, row, jj) ==
    IF jj > Len(b) THEN row
    ELSE LET cost == IF a[r] = b[jj] THEN 0 ELSE 1
             cell == Min3(prev[jj + 1] + 1,     \* deletion
                          row[jj] + 1,          \* insertion
                          prev[jj] + cost)      \* substitution
         IN  FillRow(a, b, r, prev, Append(row, cell), jj + 1)

\* the rows of the matrix, from row r on; returns the last row
RECURSIVE FillMatrix(_, _, _, _)
FillMatrix(a, b, r, prev) ==
    IF r > Len(a) THEN prev
    ELSE FillMatrix(a, b, r + 1, FillRow(a, b, r, prev, <<r>>, 1))

\* matrix[len1][len2]
LevenshteinDistance(a, b) ==
    FillMatrix(a, b, 1, [c \in 1..(Len(b) + 1) |-> c - 1])[Len(b) + 1]

levenshtein_similarity(a, b) ==
    IF a = <<>> \/ b = <<>> THEN Zero
    ELSE IF a = b THEN One
    ELSE LET distance == LevenshteinDistance(a, b)
             max_len  == Max(Len(a), Len(b))
         IN  IF max_len > 0 THEN RatSub(One, Rat(distance, max_len)) ELSE Zero

-----------------------------------------------------------------------------
(* MLService.jaccard_similarity *)

Bigrams(s) == {SubSeq(s, x, x + 1) : x \in 1..(Len(s) - 1)}

\* variant of jaccard_similarity: the bare intersection-over-union formula,
\* without the short-circuit for identical strings and without the
\* convention for two empty bigram sets
jaccard_similarity_PlainFormula(a, b) ==
    IF a = <<>> \/ b = <<>> THEN Zero
    ELSE LET intersection == Cardinality(Bigrams(a) \cap Bigrams(b))
             union        == Cardinality(Bigrams(a) \cup Bigrams(b))
         IN  IF union > 0 THEN Rat(intersection, union) ELSE Zero

\* variant of jaccard_similarity: two empty bigram sets score 0
jaccard_similarity_EmptyIsZero(a, b) ==
    IF a = <<>> \/ b = <<>> THEN Zero
    ELSE IF a = b THEN One
    ELSE LET intersection == Cardinality(Bigrams(a) \cap Bigrams(b))
             union        == Cardinality(Bigrams(a) \cup Bigrams(b))
         IN  IF union > 0 THEN Rat(intersection, union) ELSE Zero

jaccard_similarity(a, b) ==
    IF a = <<>> \/ b = <<>> THEN Zero
    ELSE IF a = b THEN One
    ELSE LET bigrams1 == Bigrams(a)
             bigrams2 == Bigrams(b)
         IN  IF bigrams1 = {} /\ bigrams2 = {} THEN One
             ELSE LET intersection == Cardinality(bigrams1 \cap bigrams2)
                      union        == Cardinality(bigrams1 \cup bigrams2)
                  IN  IF union > 0 THEN Rat(intersection, union) ELSE Zero

-----------------------------------------------------------------------------
(* Idle values of the three groups of variables *)

NoResponse == [status |-> "none"]

MetricIdle ==
    /\ s1 = <<>>
    /\ s2 = <<>>
    /\ called = "none"
    /\ returned = Zero

PairIdle ==
    /\ record1 = <<>>
    /\ record2 = <<>>
    /\ algorithm = "none"
    /\ response = NoResponse

BatchIdle ==
    /\ entities = <<>>
    /\ i = 0
    /\ j = 0
    /\ results = <<>>
    /\ scored = <<>>
    /\ pc = "idle"

\* face_embeddings = None
NoMatrix == [dim |-> 0, rows |-> <<>>, loaded |-> FALSE]

\* no operation on the gallery has run yet
NoOp == [op |-> "none", arg |-> <<>>]

\* the last operation was not a query
NoMatchResult == [status |-> "none", matches |-> <<>>,
                  best_match |-> [face_id |-> "None"], confidence |-> <<0, 1>>]

FaceIdle ==
    /\ variant = "none"
    /\ face_embeddings = NoMatrix
    /\ face_meta = <<>>
    /\ face_embeddings_normed = "absent"
    /\ embedding_dim = 0
    /\ last_op = NoOp
    /\ match_result = NoMatchResult
    /\ generated = <<>>
    /\ threads = <<>>

-----------------------------------------------------------------------------
(* EntityRecord and MLService.composite_similarity *)

\* the value of an Optional field that was not given
None == <<"<None>">>

\* Python truth of an Optional[str]: neither None nor the empty string
Truthy(v) == v # None /\ v # <<>>

\* the order in which composite_similarity fills field_scores
FieldOrder == <<"name", "email", "phone", "student_id", "card_id", "device_hash">>

Fields == {FieldOrder[x] : x \in 1..Len(FieldOrder)}

\* str.lower() on the characters that occur in the model
LowerChar(c) ==
    CASE c = "N" -> "n"
      [] c = "K" -> "k"
      [] c = "M" -> "m"
      [] c = "A" -> "a"
      [] c = "R" -> "r"
      [] c = "T" -> "t"
      [] c = "H" -> "h"
      [] OTHER   -> c

Lower(s) == [x \in 1..Len(s) |-> LowerChar(s[x])]

Digits == {"0", "1", "2", "3", "4", "5", "6", "7", "8", "9"}

\* variant of DigitsOnly: the value is compared as it was given
DigitsOnly_Unfiltered(s) == s

\* ''.join(filter(str.isdigit, s))
RECURSIVE DigitsOnly(_)
DigitsOnly(s) ==
    IF s = <<>> THEN <<>>
    ELSE IF Head(s) \in Digits THEN <<Head(s)>> \o DigitsOnly(Tail(s))
         ELSE DigitsOnly(Tail(s))

\* the score one `if record1.f and record2.f` block stores for field f
FieldScore(f, r1, r2) ==
    CASE f = "name"  -> jaro_winkler_similarity(Lower(r1.name), Lower(r2.name))
      [] f = "email" -> jaro_winkler_similarity(Lower(r1.email), Lower(r2.email))
      [] f = "phone" -> levenshtein_similarity(DigitsOnly(r1.phone), DigitsOnly(r2.phone))
      [] OTHER       -> IF r1[f] = r2[f] THEN One ELSE Zero

\* variant of composite_similarity: a field only one record supplies is
\* entered with score 0
composite_similarity_MissingAsZero(r1, r2) ==
    [f \in {g \in Fields : Truthy(r1[g]) \/ Truthy(r2[g])} |->
        IF Truthy(r1[f]) /\ Truthy(r2[f]) THEN FieldScore(f, r1, r2) ELSE Zero]

\* field_scores: a function from the scored fields to their scores
composite_similarity(r1, r2) ==
    [f \in {g \in Fields : Truthy(r1[g]) /\ Truthy(r2[g])} |-> FieldScore(f, r1, r2)]

-----------------------------------------------------------------------------
(* Records the requests are drawn from *)

NehaKumar == <<"N", "e", "h", "a", " ", "K", "u", "m", "a", "r">>

NehaKumari == <<"N", "e", "h", "a", " ", "K", "u", "m", "a", "r", "i">>

Email1 == <<"n", "k", "@", "c", "e">>

Email2 == <<"n", "@", "c", "e">>

Phone1 == <<"+", "9", "1", "-", "9", "8">>

Phone2 == <<"+", "9", "1", "9", "8">>

PhoneNoDigit == <<"-">>

PhonePlus == <<"+">>

Id1 == <<"S", "1">>

Id2 == <<"S", "2">>

EntityRecord(id, n, e, p, s, c, d) ==
    [entity_id |-> id, name |-> n, email |-> e, phone |-> p,
     student_id |-> s, card_id |-> c, device_hash |-> d]

\* record1 of a composite request
Records1 ==
    {EntityRecord("E1", n, e, p, s, c, d) :
        n \in {<<>>, NehaKumar}, e \in {None, Email1}, p \in {None, Phone1, PhonePlus},
        s \in {None, Id1}, c \in {None, Id1}, d \in {None, Id1}}

\* record2 of a composite request
Records2 ==
    {EntityRecord("E2", n, e, p, s, c, d) :
        n \in {<<>>, NehaKumar, NehaKumari}, e \in {None, <<>>, Email2},
        p \in {None, Phone2, PhoneNoDigit}, s \in {None, Id1, Id2},
        c \in {None, Id1}, d \in {None, Id2}}

\* the records of a single-metric request: only the names are read
NameOnly(id, n) == EntityRecord(id, n, None, None, None, None, None)

-----------------------------------------------------------------------------
(* POST /similarity/calculate *)

\* the table `weights` of calculate_similarity
PairWeights ==
    [name |-> Rat(3, 10), email |-> Rat(1, 4), phone |-> Rat(1, 5),
     student_id |-> Rat(1, 10), card_id |-> Rat(1, 10), device_hash |-> Rat(1, 20)]

\* the loop `for field, score in field_scores.items()`, from position x of
\* the insertion order, with the running sums in acc
RECURSIVE WeightedLoop(_, _, _, _)
WeightedLoop(field_scores, weights, x, acc) ==
    IF x > Len(FieldOrder) THEN acc
    ELSE LET f == FieldOrder[x]
         IN  IF f \in DOMAIN field_scores /\ f \in DOMAIN weights
             THEN WeightedLoop(field_scores, weights, x + 1,
                     [weighted_score |-> RatAdd(acc.weighted_score,
                                                RatMul(field_scores[f], weights[f])),
                      total_weight   |-> RatAdd(acc.total_weight, weights[f])])
             ELSE WeightedLoop(field_scores, weights, x + 1, acc)

\* variant of WeightedAggregate: the numerator is divided by the sum of the
\* whole weight table
WeightedAggregate_FullTable(field_scores, weights) ==
    LET acc == WeightedLoop(field_scores, weights, 1,
                            [weighted_score |-> Zero, total_weight |-> Zero])
        all == WeightedLoop([f \in DOMAIN weights |-> One], weights, 1,
                            [weighted_score |-> Zero, total_weight |-> Zero])
    IN  IF RatLt(Zero, all.total_weight)
        THEN RatDiv(acc.weighted_score, all.total_weight)
        ELSE Zero

WeightedAggregate(field_scores, weights) ==
    LET acc == WeightedLoop(field_scores, weights, 1,
                            [weighted_score |-> Zero, total_weight |-> Zero])
    IN  IF RatLt(Zero, acc.total_weight)
        THEN RatDiv(acc.weighted_score, acc.total_weight)
        ELSE Zero

\* min(similarity_score * 1.2, 1.0)
BoostedConfidence(score) ==
    LET boosted == RatMul(score, Rat(6, 5))
    IN  IF RatLeq(boosted, One) THEN boosted ELSE One

\* models['similarity_calculator'][algorithm] applied to the two names
SingleMetric(alg, a, b) ==
    CASE alg = "jaro_winkler" -> jaro_winkler_similarity(a, b)
      [] alg = "levenshtein"  -> levenshtein_similarity(a, b)
      [] alg = "jaccard"      -> jaccard_similarity(a, b)

SingleAlgorithms == {"jaro_winkler", "levenshtein", "jaccard"}

InitPair ==
    /\ \/ /\ algorithm = "composite"
          /\ record1 \in Records1
          /\ record2 \in Records2
       \/ /\ algorithm \in SingleAlgorithms \cup {"soundex"}
          /\ record1 \in {NameOnly("E1", n) : n \in {<<>>, NehaKumar}}
          /\ record2 \in {NameOnly("E2", n) : n \in {<<>>, NehaKumar, NehaKumari}}
    /\ response = NoResponse
    /\ MetricIdle
    /\ BatchIdle
    /\ FaceIdle

\* the branch `if request.algorithm == "composite"`
CalculateComposite ==
    /\ response = NoResponse
    /\ algorithm = "composite"
    /\ LET field_scores == composite_similarity(record1, record2)
           similarity_score == WeightedAggregate(field_scores, PairWeights)
       IN  response' = [status |-> "ok",
                        similarity_score |-> similarity_score,
                        algorithm_used |-> algorithm,
                        field_scores |-> field_scores,
                        confidence |-> BoostedConfidence(similarity_score)]
    /\ UNCHANGED <<record1, record2, algorithm, metricVars, batchVars, faceVars>>

\* the else branch with a known algorithm
CalculateSingle ==
    /\ response = NoResponse
    /\ algorithm \in SingleAlgorithms
    /\ LET similarity_score == SingleMetric(algorithm, record1.name, record2.name)
       IN  response' = [status |-> "ok",
                        similarity_score |-> similarity_score,
                        algorithm_used |-> algorithm,
                        field_scores |-> [f \in {"name"} |-> similarity_score],
                        confidence |-> similarity_score]
    /\ UNCHANGED <<record1, record2, algorithm, metricVars, batchVars, faceVars>>

\* the else branch with an algorithm the calculator table lacks: the
\* KeyError becomes the HTTP 500 of the except clause
CalculateUnknown ==
    /\ response = NoResponse
    /\ algorithm \notin SingleAlgorithms \cup {"composite"}
    /\ response' = [status |-> "error500"]
    /\ UNCHANGED <<record1, record2, algorithm, metricVars, batchVars, faceVars>>

NextPair ==
    \/ CalculateComposite
    \/ CalculateSingle
    \/ CalculateUnknown

SpecPair == InitPair /\ [][NextPair]_vars

-----------------------------------------------------------------------------
(* POST /batch/entity-resolution *)

\* the table `weights` of batch_entity_resolution
BatchWeights ==
    [name |-> Rat(2, 5), email |-> Rat(3, 10), phone |-> Rat(1, 5),
     student_id |-> Rat(1, 10)]

\* the insertion order of the batch table
BatchFieldOrder == <<"name", "email", "phone", "student_id">>

\* sum(field_scores.get(field, 0) * weight for field, weight in weights.items()),
\* from position x of the table
RECURSIVE BatchNumerator(_, _)
BatchNumerator(field_scores, x) ==
    IF x > Len(BatchFieldOrder) THEN Zero
    ELSE LET f == BatchFieldOrder[x]
             score == IF f \in DOMAIN field_scores THEN field_scores[f] ELSE Zero
         IN  RatAdd(RatMul(score, BatchWeights[f]),
                    BatchNumerator(field_scores, x + 1))

\* sum(weights.values()), from position x of the table
RECURSIVE BatchWeightSum(_)
BatchWeightSum(x) ==
    IF x > Len(BatchFieldOrder) THEN Zero
    ELSE RatAdd(BatchWeights[BatchFieldOrder[x]], BatchWeightSum(x + 1))

\* weighted_score of one pair
BatchWeightedScore(field_scores) ==
    RatDiv(BatchNumerator(field_scores, 1), BatchWeightSum(1))

\* the potential match threshold of `if weighted_score > 0.7`
MatchThreshold == Rat(7, 10)

\* the threshold of `'high' if weighted_score > 0.9 else 'medium'`
HighThreshold == Rat(9, 10)

\* the records a batch is drawn from
BatchPool ==
    {EntityRecord("E1", NehaKumar, Email1, Phone1, Id1, None, None),
     EntityRecord("E2", NehaKumar, Email1, Phone2, Id2, None, None),
     EntityRecord("E3", NehaKumari, Email1, Phone2, Id2, None, None),
     EntityRecord("E4", NehaKumar, None, None, None, None, None),
     EntityRecord("E1", NehaKumari, Email2, None, Id1, Id1, Id1),
     EntityRecord("E5", NehaKumar, Email1, None, Id2, None, None)}

Batches == UNION {[1..n -> BatchPool] : n \in 0..MaxBatch}

InitBatch ==
    /\ entities \in Batches
    /\ i = 0
    /\ j = 1
    /\ results = <<>>
    /\ scored = <<>>
    /\ pc = "loop"
    /\ MetricIdle
    /\ PairIdle
    /\ FaceIdle

\* variant of BatchScorePair: a candidate is emitted from 0.7 on (>=)
BatchScorePair_AtLeast ==
    /\ pc = "loop"
    /\ i < Len(entities)
    /\ j < Len(entities)
    /\ LET entity1 == entities[i + 1]
           entity2 == entities[j + 1]
           field_scores == composite_similarity(entity1, entity2)
           weighted_score == BatchWeightedScore(field_scores)
           emit == RatLeq(MatchThreshold, weighted_score)
       IN  /\ results' =
                IF emit
                THEN Append(results,
                            [entity1_id |-> entity1.entity_id,
                             entity2_id |-> entity2.entity_id,
                             similarity_score |-> weighted_score,
                             field_scores |-> field_scores,
                             match_type |-> IF RatLt(HighThreshold, weighted_score)
                                            THEN "high" ELSE "medium"])
                ELSE results
           /\ scored' = Append(scored, [first |-> i, second |-> j,
                                        field_scores |-> field_scores,
                                        weighted_score |-> weighted_score,
                                        emitted |-> emit])
    /\ j' = j + 1
    /\ UNCHANGED <<entities, i, pc, metricVars, pairVars, faceVars>>

\* one pass of the body of the inner loop, for entities[i] and entities[j]
BatchScorePair ==
    /\ pc = "loop"
    /\ i < Len(entities)
    /\ j < Len(entities)
    /\ LET entity1 == entities[i + 1]
           entity2 == entities[j + 1]
           field_scores == composite_similarity(entity1, entity2)
           weighted_score == BatchWeightedScore(field_scores)
           emit == RatLt(MatchThreshold, weighted_score)
       IN  /\ results' =
                IF emit
                THEN Append(results,
                            [entity1_id |-> entity1.entity_id,
                             entity2_id |-> entity2.entity_id,
                             similarity_score |-> weighted_score,
                             field_scores |-> field_scores,
                             match_type |-> IF RatLt(HighThreshold, weighted_score)
                                            THEN "high" ELSE "medium"])
                ELSE results
           /\ scored' = Append(scored, [first |-> i, second |-> j,
                                        field_scores |-> field_scores,
                                        weighted_score |-> weighted_score,
                                        emitted |-> emit])
    /\ j' = j + 1
    /\ UNCHANGED <<entities, i, pc, metricVars, pairVars, faceVars>>

\* variant of BatchNextEntity: the inner loop restarts at entities[i:]
BatchNextEntity_FromSelf ==
    /\ pc = "loop"
    /\ i < Len(entities)
    /\ j >= Len(entities)
    /\ i' = i + 1
    /\ j' = i + 1
    /\ UNCHANGED <<entities, results, scored, pc, metricVars, pairVars, faceVars>>

\* the inner loop is exhausted: the outer loop takes the next entity1 and
\* the inner loop restarts at entities[i+1:]
BatchNextEntity ==
    /\ pc = "loop"
    /\ i < Len(entities)
    /\ j >= Len(entities)
    /\ i' = i + 1
    /\ j' = i + 2
    /\ UNCHANGED <<entities, results, scored, pc, metricVars, pairVars, faceVars>>

\* the outer loop is exhausted: the handler returns
BatchReturn ==
    /\ pc = "loop"
    /\ i >= Len(entities)
    /\ pc' = "done"
    /\ UNCHANGED <<entities, i, j, results, scored, metricVars, pairVars, faceVars>>

NextBatch ==
    \/ BatchScorePair
    \/ BatchNextEntity
    \/ BatchReturn

SpecBatch == InitBatch /\ [][NextBatch]_vars

-----------------------------------------------------------------------------
(* Direct calls of the string metrics: similarity(metric, s1, s2) *)

InitMetrics ==
    /\ s1 \in Strings
    /\ s2 \in Strings
    /\ called = "none"
    /\ returned = Zero
    /\ PairIdle
    /\ BatchIdle
    /\ FaceIdle

CallJaroWinkler ==
    /\ called = "none"
    /\ called' = "jaro_winkler"
    /\ returned' = jaro_winkler_similarity(s1, s2)
    /\ UNCHANGED <<s1, s2, pairVars, batchVars, faceVars>>

CallLevenshtein ==
    /\ called = "none"
    /\ called' = "levenshtein"
    /\ returned' = levenshtein_similarity(s1, s2)
    /\ UNCHANGED <<s1, s2, pairVars, batchVars, faceVars>>

CallJaccard ==
    /\ called = "none"
    /\ called' = "jaccard"
    /\ returned' = jaccard_similarity(s1, s2)
    /\ UNCHANGED <<s1, s2, pairVars, batchVars, faceVars>>

NextMetrics ==
    \/ CallJaroWinkler
    \/ CallLevenshtein
    \/ CallJaccard

SpecMetrics == InitMetrics /\ [][NextMetrics]_vars

-----------------------------------------------------------------------------
(* Vectors *)
(* A vector is carried exactly as [w, r]: the integer direction w (its     *)
(* components have no common divisor) scaled by the square root of the     *)
(* positive rational r; the all-zero vector has r = 1.  A cosine or dot    *)
(* product x is carried as its signed square x*|x|, a rational that orders *)
(* and compares exactly as x does; 0 and 1 are their own signed squares.   *)

\* fallback dimension of MLService.image_bytes_to_embedding, scaled down
\* from the 128 of the source
FallbackDimMain == 3

\* initial SimpleFaceService.embedding_dim, scaled down from the 512 of the
\* source
FallbackDimSimple == 4

\* number of bytes of one digest, scaled down from the 32 of SHA-256
DigestSize == 2

\* largest number of entries of one gallery load
MaxRows == 2

\* largest number of embedding calls recorded
MaxCalls == 2

RECURSIVE VecGCD(_)
VecGCD(x) == IF x = <<>> THEN 0 ELSE GCD(Abs(Head(x)), VecGCD(Tail(x)))

RECURSIVE DotInt(_, _)
DotInt(x, y) ==
    IF x = <<>> THEN 0 ELSE Head(x) * Head(y) + DotInt(Tail(x), Tail(y))

\* np.array(...) of the integer list x, every component times scale
FromInts(x, scale) ==
    LET g == VecGCD(x)
    IN  IF g = 0 THEN [w |-> x, r |-> One]
        ELSE [w |-> [k \in 1..Len(x) |-> x[k] \div g],
              r |-> RatMul(RatMul(<<g, 1>>, scale), RatMul(<<g, 1>>, scale))]

Dim(v) == Len(v.w)

\* np.linalg.norm(v) squared
NormSq(v) == RatMul(v.r, <<DotInt(v.w, v.w), 1>>)

IsZeroVec(v) == DotInt(v.w, v.w) = 0

\* v / np.linalg.norm(v), for a norm that is not 0
DivideByNorm(v) == [w |-> v.w, r |-> Rat(1, DotInt(v.w, v.w))]

Sign(n) == IF n > 0 THEN 1 ELSE IF n < 0 THEN -1 ELSE 0

\* the signed square of the rational t
SignedSquare(t) == RatMul(<<Sign(t[1]), 1>>, RatMul(t, t))

\* np.dot(u, v) of two vectors of one length, as a signed square
DotSq(u, v) ==
    LET k == DotInt(u.w, v.w)
    IN  RatMul(<<Sign(k) * k * k, 1>>, RatMul(u.r, v.r))

IsUnitOrZero(v) == IsZeroVec(v) \/ NormSq(v) = One

-----------------------------------------------------------------------------
(* Deterministic embeddings: MLService.image_bytes_to_embedding and        *)
(* SimpleFaceService.generate_deterministic_embedding                      *)

\* stand-in for hashlib.sha256(img_bytes).digest(): a number computed from
\* the bytes of the payload alone
RECURSIVE Seed(_)
Seed(img_bytes) ==
    IF img_bytes = <<>> THEN 7
    ELSE (31 * Seed(Tail(img_bytes)) + Head(img_bytes) + 1) % 251

\* stand-in for byte k of hashlib.sha256(seed + counter.to_bytes(4, 'little')):
\* a byte computed from the seed, the counter and the position alone
DigestByte(seed, counter, k) ==
    120 + ((seed * 7 + counter * 13 + k * 5 + seed * k + counter * k * 3) % 16)

\* MLService: `for b in h: vals.append((b / 255.0) - 0.5)`, left when
\* len(vals) >= dim; vals holds the numerators 2b - 255 of (2b - 255)/510
RECURSIVE DigestLoopMain(_, _, _, _, _)
DigestLoopMain(seed, counter, k, vals, dim) ==
    IF k >= DigestSize THEN vals
    ELSE LET vals2 == Append(vals, 2 * DigestByte(seed, counter, k) - 255)
         IN  IF Len(vals2) >= dim THEN vals2
             ELSE DigestLoopMain(seed, counter, k + 1, vals2, dim)

\* MLService: `while len(vals) < dim`
RECURSIVE CollectMain(_, _, _, _)
CollectMain(seed, counter, vals, dim) ==
    IF Len(vals) >= dim THEN vals
    ELSE CollectMain(seed, counter + 1, DigestLoopMain(seed, counter, 0, vals, dim), dim)

\* image_bytes_to_embedding with the dimension already determined
EmbedMain(img_bytes, dim) ==
    LET vals == CollectMain(Seed(img_bytes), 0, <<>>, dim)
        vec  == FromInts(SubSeq(vals, 1, dim), Rat(1, 510))
    IN  IF IsZeroVec(vec) THEN vec ELSE DivideByNorm(vec)

\* SimpleFaceService: `for b in h`, left when len(vals) >= dim before the
\* append; vals holds the numerators 2b - 255 of (2b - 255)/255
RECURSIVE DigestLoopSimple(_, _, _, _, _)
DigestLoopSimple(seed, counter, k, vals, dim) ==
    IF k >= DigestSize \/ Len(vals) >= dim THEN vals
    ELSE DigestLoopSimple(seed, counter, k + 1,
                          Append(vals, 2 * DigestByte(seed, counter, k) - 255), dim)

\* SimpleFaceService: `while len(vals) < dim`
RECURSIVE CollectSimple(_, _, _, _)
CollectSimple(seed, counter, vals, dim) ==
    IF Len(vals) >= dim THEN vals
    ELSE CollectSimple(seed, counter + 1, DigestLoopSimple(seed, counter, 0, vals, dim), dim)

generate_deterministic_embedding(img_bytes, dim) ==
    LET vals == CollectSimple(Seed(img_bytes), 0, <<>>, dim)
        vec  == FromInts(SubSeq(vals, 1, dim), Rat(1, 255))
    IN  IF ~IsZeroVec(vec) THEN DivideByNorm(vec) ELSE vec

\* the value of a `dim` argument that was not given
NoDim == -1

image_bytes_to_embedding_GalleryFirst(img_bytes, dim, m) ==
    EmbedMain(img_bytes,
              IF m.loaded THEN m.dim
              ELSE (IF dim = NoDim THEN FallbackDimMain ELSE dim))

\* image_bytes_to_embedding(img_bytes, dim) against the gallery matrix m:
\* a missing dim is the column count of the loaded matrix, else the fallback
image_bytes_to_embedding(img_bytes, dim, m) ==
    EmbedMain(img_bytes,
              IF dim = NoDim
              THEN (IF m.loaded THEN m.dim ELSE FallbackDimMain)
              ELSE dim)

-----------------------------------------------------------------------------
(* The gallery: matrix and metadata of MLService and SimpleFaceService *)

\* a metadata value that is None
NoValue == "None"

\* the rows of a flat file or the files of the image directory: each entry
\* has a face_id and either a list of numbers or the bytes of an image
Entry(id, x) == [face_id |-> id, data |-> x]

\* an N x D matrix; rows is a sequence of vectors of dimension dim
Matrix(d, rws) == [dim |-> d, rows |-> rws, loaded |-> TRUE]

SameDims(entries) ==
    \A a, b \in DOMAIN entries : Len(entries[a].data) = Len(entries[b].data)

\* np.vstack / DataFrame.values of the lists of numbers of the entries
RawMatrix(entries) ==
    Matrix(Len(entries[1].data),
           [k \in DOMAIN entries |-> FromInts(entries[k].data, One)])

\* the metadata dictionaries built from the rows of a flat file
CsvMeta(entries) ==
    [k \in DOMAIN entries |->
        [face_id |-> entries[k].face_id, entity_id |-> NoValue, name |-> NoValue]]

\* MLService: the metadata of the image files
ImageMetaMain(files) ==
    [k \in DOMAIN files |->
        [face_id |-> files[k].face_id, entity_id |-> NoValue, name |-> NoValue]]

\* face_id.replace('F', 'E') if face_id.startswith('F') else None, on the
\* identifiers of the model
EntityOfFace(id) ==
    CASE id = "F1" -> "E1"
      [] id = "F2" -> "E2"
      [] OTHER     -> NoValue

\* SimpleFaceService: the metadata of the image files
ImageMetaSimple(files) ==
    [k \in DOMAIN files |->
        [face_id |-> files[k].face_id, entity_id |-> EntityOfFace(files[k].face_id),
         name |-> NoValue]]

\* np.vstack raised
Raised == [dim |-> -1, rows |-> <<>>, loaded |-> FALSE]

\* the longest prefix of the entries with the dimension of the first one
RECURSIVE LeadingRows(_, _)
LeadingRows(entries, d) ==
    IF entries = <<>> \/ Len(Head(entries).data) # d THEN <<>>
    ELSE <<Head(entries)>> \o LeadingRows(Tail(entries), d)

VStack_LeadingRows(entries) ==
    IF entries = <<>> THEN Raised
    ELSE RawMatrix(LeadingRows(entries, Len(entries[1].data)))

\* np.vstack(df[embed_col].values): raises on no rows and on rows of
\* differing length
VStack(entries) ==
    IF entries = <<>> \/ ~SameDims(entries) THEN Raised ELSE RawMatrix(entries)

\* the rows of the cells of an embedding column whose cells are lists of
\* lists: np.vstack takes every cell as a block of rows
RECURSIVE CellRows(_)
CellRows(entries) ==
    IF entries = <<>> THEN <<>>
    ELSE Head(entries).data \o CellRows(Tail(entries))

\* np.vstack(df[embed_col].values) for cells that are lists of lists: the
\* blocks are stacked, and it raises on no rows and on rows of differing
\* length
VStackCells(entries) ==
    LET rws == CellRows(entries)
    IN  IF rws = <<>> \/ \E a, b \in DOMAIN rws : Len(rws[a]) # Len(rws[b])
        THEN Raised
        ELSE Matrix(Len(rws[1]), [k \in DOMAIN rws |-> FromInts(rws[k], One)])

\* the flat file and the image directory a load finds
LoadInput(kind, rws, files) == [csv |-> kind, rows |-> rws, images |-> files]

\* MLService.load_face_embeddings: the values of
\* <<face_embeddings, face_meta, _face_embeddings_normed>> after the load
MainLoadResult(input, m, meta, normed) ==
    CASE input.csv = "missing" ->
            \* fallback: embeddings of the image files, already unit length
            IF input.images # <<>>
            THEN <<Matrix(Dim(image_bytes_to_embedding(input.images[1].data, NoDim, m)),
                          [k \in DOMAIN input.images |->
                              image_bytes_to_embedding(input.images[k].data, NoDim, m)]),
                   ImageMetaMain(input.images), "True">>
            ELSE <<m, meta, normed>>
      [] input.csv = "embed_col" ->
            \* a raise of np.vstack is caught by the except clause, which returns
            IF VStack(input.rows) = Raised
            THEN <<m, meta, normed>>
            ELSE <<VStack(input.rows), CsvMeta(input.rows), "False">>
      [] input.csv = "embed_col_2d" ->
            \* the same branch for cells that json.loads reads as lists of
            \* lists: one metadata record for each row of the file
            IF VStackCells(input.rows) = Raised
            THEN <<m, meta, normed>>
            ELSE <<VStackCells(input.rows), CsvMeta(input.rows), "False">>
      [] input.csv = "numeric" ->
            \* fewer than two numeric columns: nothing is loaded
            IF input.rows = <<>> \/ Len(input.rows[1].data) < 2
            THEN <<m, meta, normed>>
            ELSE <<RawMatrix(input.rows), CsvMeta(input.rows), "False">>
      [] OTHER ->
            \* pd.read_csv raises: the except clause returns
            <<m, meta, normed>>

\* SimpleFaceService.build_embeddings_from_images: the values of
\* <<face_embeddings, face_meta>> after it
SimpleImagesResult(files, m, meta, dim) ==
    IF files # <<>>
    THEN <<Matrix(dim, [k \in DOMAIN files |->
                           generate_deterministic_embedding(files[k].data, dim)]),
           ImageMetaSimple(files)>>
    ELSE <<m, meta>>

\* SimpleFaceService.load_face_data: the values of
\* <<face_embeddings, face_meta, embedding_dim>> after the load
SimpleLoadResult(input, m, meta, dim) ==
    CASE input.csv = "numeric" /\ input.rows # <<>> /\ Len(input.rows[1].data) > 0 ->
            <<RawMatrix(input.rows), CsvMeta(input.rows), Len(input.rows[1].data)>>
      [] input.csv = "unreadable" ->
            \* pd.read_csv raises: the except clause clears the gallery
            <<NoMatrix, <<>>, dim>>
      [] OTHER ->
            \* no flat file, or one without numeric embedding columns
            LET built == SimpleImagesResult(input.images, m, meta, dim)
            IN  <<built[1], built[2], dim>>

-----------------------------------------------------------------------------
(* match_face_embedding *)

NoBest == [face_id |-> NoValue]

EmptyResult == [status |-> "ok", matches |-> <<>>, best_match |-> NoBest,
                confidence |-> Zero]

\* the call raised: the endpoint answers HTTP 500
ErrorResult == [status |-> "error500", matches |-> <<>>, best_match |-> NoBest,
                confidence |-> Zero]

\* variant of NormalizeRows: the rows are left as they are
NormalizeRows_AsStored(m) == m

\* embeddings / norms with norms[norms == 0] = 1.0
NormalizeRows(m) ==
    [m EXCEPT !.rows = [k \in DOMAIN m.rows |->
                           IF IsZeroVec(m.rows[k]) THEN m.rows[k]
                           ELSE DivideByNorm(m.rows[k])]]

\* np.dot(embeddings, q) for a query of the dimension of the matrix
Similarities(m, q) == [k \in DOMAIN m.rows |-> DotSq(m.rows[k], q)]

\* the loop over np.where(sims >= threshold)[0], from row k on: a copy of
\* the metadata of each row at or above the threshold, with its similarity
RECURSIVE GatherMain(_, _, _, _)
GatherMain(meta, sims, threshold, k) ==
    IF k > Len(sims) THEN <<>>
    ELSE IF RatLeq(SignedSquare(threshold), sims[k])
         THEN <<[face_id |-> meta[k].face_id, entity_id |-> meta[k].entity_id,
                 name |-> meta[k].name, similarity |-> sims[k]]>>
              \o GatherMain(meta, sims, threshold, k + 1)
         ELSE GatherMain(meta, sims, threshold, k + 1)

\* the same loop of SimpleFaceService, which also stores `confidence`
RECURSIVE GatherSimple(_, _, _, _)
GatherSimple(meta, sims, threshold, k) ==
    IF k > Len(sims) THEN <<>>
    ELSE IF RatLeq(SignedSquare(threshold), sims[k])
         THEN <<[face_id |-> meta[k].face_id, entity_id |-> meta[k].entity_id,
                 name |-> meta[k].name, similarity |-> sims[k],
                 confidence |-> sims[k]]>>
              \o GatherSimple(meta, sims, threshold, k + 1)
         ELSE GatherSimple(meta, sims, threshold, k + 1)

\* x put into the list sorted by descending similarity, behind every entry
\* that is not smaller
RECURSIVE InsertDesc(_, _)
InsertDesc(sorted, x) ==
    IF sorted = <<>> THEN <<x>>
    ELSE IF RatLt(Head(sorted).similarity, x.similarity)
         THEN <<x>> \o sorted
         ELSE <<Head(sorted)>> \o InsertDesc(Tail(sorted), x)

\* sorted(matches, key=similarity, reverse=True): a stable sort
RECURSIVE SortDesc(_, _)
SortDesc(sorted, rest) ==
    IF rest = <<>> THEN sorted
    ELSE SortDesc(InsertDesc(sorted, Head(rest)), Tail(rest))

MatchResult_LastEntry(matches) ==
    [status |-> "ok", matches |-> matches,
     best_match |-> IF matches # <<>> THEN matches[Len(matches)] ELSE NoBest,
     confidence |-> IF matches # <<>> THEN matches[Len(matches)].similarity ELSE Zero]

\* the returned dictionary for the sorted matches
MatchResult(matches) ==
    [status |-> "ok", matches |-> matches,
     best_match |-> IF matches # <<>> THEN matches[1] ELSE NoBest,
     confidence |-> IF matches # <<>> THEN matches[1].similarity ELSE Zero]

\* MLService.match_face_embedding: the values of
\* <<result, face_embeddings, _face_embeddings_normed>> after the call
NoGallery_Never(m, meta) == FALSE

\* self.face_embeddings is None or len(self.face_meta) == 0
NoGallery(m, meta) == ~m.loaded \/ Len(meta) = 0

\* variant of StoreNormalized: the assignment of line 630 is left out
StoreNormalized_Skipped(m, embeddings) == m

\* self.face_embeddings = embeddings: the matrix held after a query that
\* found m and scored `embeddings`
StoreNormalized(m, embeddings) == embeddings

\* (q is np.array(query_embedding), a vector)
MainMatchResult(q, threshold, m, meta, normed) ==
    IF NoGallery(m, meta) THEN <<EmptyResult, m, normed>>
    ELSE IF IsZeroVec(q) THEN <<EmptyResult, m, normed>>
    ELSE LET q_unit == DivideByNorm(q)
             lazy == normed # "True"
             embeddings == IF lazy THEN NormalizeRows(m) ELSE m
         IN  IF Dim(q_unit) # embeddings.dim
             THEN \* np.dot raises ValueError: HTTPException(500)
                  <<ErrorResult, StoreNormalized(m, embeddings), "True">>
             ELSE IF \E k \in DOMAIN embeddings.rows :
                         /\ RatLeq(SignedSquare(threshold),
                                   Similarities(embeddings, q_unit)[k])
                         /\ k > Len(meta)
             THEN \* self.face_meta[idx] raises IndexError: HTTPException(500)
                  <<ErrorResult, StoreNormalized(m, embeddings), "True">>
             ELSE <<MatchResult(SortDesc(<<>>,
                        GatherMain(meta, Similarities(embeddings, q_unit),
                                   threshold, 1))),
                    StoreNormalized(m, embeddings), "True">>

\* SimpleFaceService.match_face_embedding: the returned dictionary
\* (query is np.array(query_embedding), a vector)
SimpleMatchResult(query, threshold, m, meta) ==
    IF NoGallery(m, meta) THEN EmptyResult
    ELSE IF Dim(query) # m.dim THEN EmptyResult
    ELSE LET unit == IF ~IsZeroVec(query) THEN DivideByNorm(query) ELSE query
         IN  MatchResult(SortDesc(<<>>,
                 GatherSimple(meta, Similarities(m, unit), threshold, 1)))

-----------------------------------------------------------------------------
(* The face service as a state machine: loads and queries *)

FaceIds == <<"F1", "F2", "F3", "F4">>

\* the sequences of at most MaxRows entries over a set of data values,
\* identified by position
EntryLists(pool) ==
    UNION {{[k \in 1..n |-> Entry(FaceIds[k], f[k])] : f \in [1..n -> pool]} :
           n \in 0..MaxRows}

\* embeddings of flat files: dimension 2, and one of dimension 1
RowPool == {<<2, 0>>, <<1, 1>>, <<0, 0>>, <<2>>}

\* the byte payloads of images
Payloads == {<<1>>, <<2>>}

QueryPool == {<<1, 0>>, <<1, 1>>, <<-1, 0>>, <<0, 0>>, <<3>>}

Thresholds == {Rat(4, 5), Rat(101, 100), Zero}

\* the image directory that lies next to a flat file
ImagesBesideCsv == <<Entry("F1", <<1>>)>>

\* what a load can find: no flat file and any image directory, a flat file
\* with one embedding column, a flat file with one numeric column for each
\* dimension (a table: every row has the same length), or a flat file that
\* cannot be read
LoadInputs(embedColLists, numericLists, imageLists) ==
    {LoadInput("missing", <<>>, f) : f \in imageLists}
    \cup {LoadInput("embed_col", r, ImagesBesideCsv) : r \in embedColLists}
    \cup {LoadInput("numeric", r, ImagesBesideCsv) :
              r \in {x \in numericLists : SameDims(x)}}
    \cup {LoadInput("unreadable", <<>>, ImagesBesideCsv)}

\* the rows of the layout a variant does not read as embeddings vary less
FewRows == {<<2, 0>>, <<2>>}

\* cells of an embedding column that hold two vectors each
CellPool == {<<<<2, 0>>, <<1, 1>>>>}

MainLoadInputs ==
    LoadInputs(EntryLists(RowPool), EntryLists(FewRows), EntryLists(Payloads))

\* flat files whose embedding column holds lists of lists
CellLoadInputs ==
    {LoadInput("embed_col_2d", r, ImagesBesideCsv) : r \in EntryLists(CellPool)}

SimpleLoadInputs ==
    LoadInputs(EntryLists(FewRows), EntryLists(RowPool), EntryLists(Payloads))

\* what last_op keeps of a load: the layout found and whether its rows
\* disagree on their dimension
LoadOp(input) ==
    [op |-> "load", arg |-> [csv |-> input.csv, mixed |-> ~SameDims(input.rows)]]

MatchOp(q, t) == [op |-> "match", arg |-> [query |-> q, threshold |-> t]]

InitFace ==
    /\ MetricIdle /\ PairIdle /\ BatchIdle
    /\ variant \in {"main", "simple"}
    /\ face_embeddings = NoMatrix
    /\ face_meta = <<>>
    /\ face_embeddings_normed = "absent"
    /\ embedding_dim = IF variant = "simple" THEN FallbackDimSimple ELSE 0
    /\ last_op = NoOp
    /\ match_result = NoMatchResult
    /\ generated = <<>>
    /\ threads = <<>>

\* MLService.load_face_embeddings
MainLoad(input) ==
    /\ variant = "main"
    /\ LET after == MainLoadResult(input, face_embeddings, face_meta,
                                   face_embeddings_normed)
       IN  /\ face_embeddings' = after[1]
           /\ face_meta' = after[2]
           /\ face_embeddings_normed' = after[3]
    /\ last_op' = LoadOp(input)
    /\ match_result' = NoMatchResult
    /\ UNCHANGED <<variant, embedding_dim, generated>>
    /\ UNCHANGED <<metricVars, pairVars, batchVars, threads>>

\* SimpleFaceService.load_face_data
SimpleLoad(input) ==
    /\ variant = "simple"
    /\ LET after == SimpleLoadResult(input, face_embeddings, face_meta, embedding_dim)
       IN  /\ face_embeddings' = after[1]
           /\ face_meta' = after[2]
           /\ embedding_dim' = after[3]
    /\ last_op' = LoadOp(input)
    /\ match_result' = NoMatchResult
    /\ UNCHANGED <<variant, face_embeddings_normed, generated>>
    /\ UNCHANGED <<metricVars, pairVars, batchVars, threads>>

\* POST /face/match of main.py
MainMatch(q, threshold) ==
    /\ variant = "main"
    /\ LET after == MainMatchResult(q, threshold, face_embeddings, face_meta,
                                    face_embeddings_normed)
       IN  /\ match_result' = after[1]
           /\ face_embeddings' = after[2]
           /\ face_embeddings_normed' = after[3]
    /\ last_op' = MatchOp(q, threshold)
    /\ UNCHANGED <<variant, face_meta, embedding_dim, generated>>
    /\ UNCHANGED <<metricVars, pairVars, batchVars, threads>>

\* POST /face/match of simple_face_service.py
SimpleMatch(q, threshold) ==
    /\ variant = "simple"
    /\ match_result' = SimpleMatchResult(q, threshold, face_embeddings, face_meta)
    /\ last_op' = MatchOp(q, threshold)
    /\ UNCHANGED <<variant, face_embeddings, face_meta, face_embeddings_normed,
                   embedding_dim, generated>>
    /\ UNCHANGED <<metricVars, pairVars, batchVars, threads>>

NextFace ==
    \/ \E input \in MainLoadInputs : MainLoad(input)
    \/ \E input \in CellLoadInputs : MainLoad(input)
    \/ \E input \in SimpleLoadInputs : SimpleLoad(input)
    \/ \E x \in QueryPool, t \in Thresholds : MainMatch(FromInts(x, One), t)
    \/ \E x \in QueryPool, t \in Thresholds : SimpleMatch(FromInts(x, One), t)

SpecFace == InitFace /\ [][NextFace]_vars

-----------------------------------------------------------------------------
(* The face service as a state machine: loads, queries and embedding calls *)

\* the `dim` arguments of the embedding calls
EmbedDims == {NoDim, 2}

EmbedLoadInputs ==
    {LoadInput("numeric", <<Entry("F1", <<2, 0>>)>>, ImagesBesideCsv),
     LoadInput("embed_col", <<Entry("F1", <<2>>)>>, ImagesBesideCsv),
     LoadInput("missing", <<>>, <<Entry("F1", <<1>>)>>),
     LoadInput("missing", <<>>, <<>>),
     LoadInput("unreadable", <<>>, ImagesBesideCsv)}

EmbedOp(img_bytes, dim) == [op |-> "embed", arg |-> [payload |-> img_bytes, dim |-> dim]]

\* one call in the log of embedding calls: the arguments, the returned vector
\* and the gallery at the time of the call
Call(img_bytes, d, vec, m) ==
    [payload |-> img_bytes, dim |-> d, vector |-> vec,
     loaded |-> m.loaded, gallery_dim |-> m.dim]

\* MLService.image_bytes_to_embedding(img_bytes, dim); without a dim it is
\* also what POST /embeddings/face of main.py computes for one image
MainEmbed(img_bytes, dim) ==
    /\ variant = "main"
    /\ Len(generated) < MaxCalls
    /\ generated' = Append(generated,
                       Call(img_bytes, dim,
                            image_bytes_to_embedding(img_bytes, dim, face_embeddings),
                            face_embeddings))
    /\ last_op' = EmbedOp(img_bytes, dim)
    /\ match_result' = NoMatchResult
    /\ UNCHANGED <<variant, face_embeddings, face_meta, face_embeddings_normed,
                   embedding_dim>>
    /\ UNCHANGED <<metricVars, pairVars, batchVars, threads>>

\* SimpleFaceService.generate_deterministic_embedding(img_bytes, dim);
\* without a dim, generate_face_embeddings for one image, which passes
\* self.embedding_dim
SimpleEmbed(img_bytes, dim) ==
    /\ variant = "simple"
    /\ Len(generated) < MaxCalls
    /\ generated' = Append(generated,
                       Call(img_bytes, dim,
                            generate_deterministic_embedding(img_bytes,
                                IF dim = NoDim THEN embedding_dim ELSE dim),
                            face_embeddings))
    /\ last_op' = EmbedOp(img_bytes, dim)
    /\ match_result' = NoMatchResult
    /\ UNCHANGED <<variant, face_embeddings, face_meta, face_embeddings_normed,
                   embedding_dim>>
    /\ UNCHANGED <<metricVars, pairVars, batchVars, threads>>

\* the vectors a client of this specification sends as queries: a fixed one
\* and every embedding the service has returned
EmbedQueries ==
    {FromInts(<<1, 0>>, One)} \cup {generated[k].vector : k \in DOMAIN generated}

NextEmbed ==
    \/ \E input \in EmbedLoadInputs : MainLoad(input)
    \/ \E input \in EmbedLoadInputs : SimpleLoad(input)
    \/ \E q \in EmbedQueries : MainMatch(q, Rat(4, 5))
    \/ \E q \in EmbedQueries : SimpleMatch(q, Rat(4, 5))
    \/ \E img_bytes \in Payloads, dim \in EmbedDims : MainEmbed(img_bytes, dim)
    \/ \E img_bytes \in Payloads, dim \in EmbedDims : SimpleEmbed(img_bytes, dim)

SpecEmbed == InitFace /\ [][NextEmbed]_vars

-----------------------------------------------------------------------------
(* The main service with calls that run at the same time: each statement of
   match_face_embedding and load_face_embeddings that reads or writes a field
   of the service is one step *)

\* the number of calls that run at the same time
MaxThreads == 2

ThreadIds == 1..MaxThreads

\* the flat file the constructor's load found: the gallery is freshly
\* loaded and not yet normalized
FreshInput == LoadInput("embed_col", <<Entry("F1", <<2, 0>>)>>, <<>>)

\* the flat files a later load finds
RaceLoadInputs ==
    {LoadInput("embed_col", <<Entry("F3", <<1, 1>>), Entry("F4", <<2, 0>>)>>, <<>>)}

\* the queries: vector and threshold
RaceQueries == {<<<<1, 0>>, Rat(4, 5)>>, <<<<1, 1>>, Zero>>}

\* a thread: its position, what it was called with, and its local variables
\* (read: self.face_embeddings as line 625 read it; embeddings: the local
\* `embeddings`; result: what the call returned)
Thread(pc_, kind_, q_, threshold_, input_, read_, embeddings_, result_) ==
    [pc |-> pc_, kind |-> kind_, q |-> q_, threshold |-> threshold_,
     input |-> input_, read |-> read_, embeddings |-> embeddings_,
     result |-> result_]

IdleThread ==
    Thread("idle", "none", FromInts(<<>>, One), Zero, FreshInput, NoMatrix,
           NoMatrix, NoMatchResult)

InitRace ==
    /\ MetricIdle /\ PairIdle /\ BatchIdle
    /\ variant = "main"
    /\ LET after == MainLoadResult(FreshInput, NoMatrix, <<>>, "absent")
       IN  /\ face_embeddings = after[1]
           /\ face_meta = after[2]
           /\ face_embeddings_normed = after[3]
    /\ embedding_dim = 0
    /\ last_op = NoOp
    /\ match_result = NoMatchResult
    /\ generated = <<>>
    /\ threads = [t \in ThreadIds |-> IdleThread]

\* what no step of a thread changes
RaceFrame ==
    UNCHANGED <<variant, embedding_dim, last_op, match_result, generated,
                metricVars, pairVars, batchVars>>

\* POST /face/match arrives
QStart(t, x, threshold) ==
    /\ threads[t].pc = "idle"
    /\ threads' = [threads EXCEPT ![t] =
                      [@ EXCEPT !.pc = "check", !.kind = "query",
                                !.q = FromInts(x, One), !.threshold = threshold]]
    /\ UNCHANGED <<face_embeddings, face_meta, face_embeddings_normed>>
    /\ RaceFrame

\* lines 609-621: no gallery or a zero query returns the empty result
QCheck(t) ==
    /\ threads[t].pc = "check"
    /\ threads' = [threads EXCEPT ![t] =
                      IF NoGallery(face_embeddings, face_meta) \/ IsZeroVec(@.q)
                      THEN [@ EXCEPT !.pc = "done", !.result = EmptyResult]
                      ELSE [@ EXCEPT !.pc = "read"]]
    /\ UNCHANGED <<face_embeddings, face_meta, face_embeddings_normed>>
    /\ RaceFrame

\* line 625: embeddings = self.face_embeddings
QRead(t) ==
    /\ threads[t].pc = "read"
    /\ threads' = [threads EXCEPT ![t] =
                      [@ EXCEPT !.pc = "flag", !.read = face_embeddings,
                                !.embeddings = face_embeddings]]
    /\ UNCHANGED <<face_embeddings, face_meta, face_embeddings_normed>>
    /\ RaceFrame

\* lines 626-629: the test of the flag, and the local normalization
QFlag(t) ==
    /\ threads[t].pc = "flag"
    /\ threads' = [threads EXCEPT ![t] =
                      IF face_embeddings_normed # "True"
                      THEN [@ EXCEPT !.pc = "store",
                                     !.embeddings = NormalizeRows(@)]
                      ELSE [@ EXCEPT !.pc = "dot"]]
    /\ UNCHANGED <<face_embeddings, face_meta, face_embeddings_normed>>
    /\ RaceFrame

\* line 630: self.face_embeddings = embeddings
QStore(t) ==
    /\ threads[t].pc = "store"
    /\ face_embeddings' = threads[t].embeddings
    /\ threads' = [threads EXCEPT ![t].pc = "setflag"]
    /\ UNCHANGED <<face_meta, face_embeddings_normed>>
    /\ RaceFrame

\* line 631: self._face_embeddings_normed = True
QSetFlag(t) ==
    /\ threads[t].pc = "setflag"
    /\ face_embeddings_normed' = "True"
    /\ threads' = [threads EXCEPT ![t].pc = "dot"]
    /\ UNCHANGED <<face_embeddings, face_meta>>
    /\ RaceFrame

\* lines 633-655: the dot product with the local matrix, the loop that reads
\* self.face_meta[idx], the sort and the return; a ValueError of np.dot or an
\* IndexError of self.face_meta[idx] becomes HTTP 500
QDot(t) ==
    /\ threads[t].pc = "dot"
    /\ LET th == threads[t]
           q_unit == DivideByNorm(th.q)
       IN  threads' = [threads EXCEPT ![t] =
              [@ EXCEPT !.pc = "done",
                        !.result =
                 IF Dim(q_unit) # th.embeddings.dim THEN ErrorResult
                 ELSE LET sims == Similarities(th.embeddings, q_unit)
                      IN  IF \E k \in DOMAIN sims :
                                 /\ RatLeq(SignedSquare(th.threshold), sims[k])
                                 /\ k > Len(face_meta)
                          THEN ErrorResult
                          ELSE MatchResult(SortDesc(<<>>,
                                   GatherMain(face_meta, sims, th.threshold, 1)))]]
    /\ UNCHANGED <<face_embeddings, face_meta, face_embeddings_normed>>
    /\ RaceFrame

\* load_face_embeddings is called and reads its flat file (lines 182-269);
\* a raise of np.vstack ends the call
LStart(t, input) ==
    /\ threads[t].pc = "idle"
    /\ threads' = [threads EXCEPT ![t] =
                      IF VStack(input.rows) = Raised
                      THEN [@ EXCEPT !.pc = "done", !.kind = "load", !.input = input]
                      ELSE [@ EXCEPT !.pc = "store_matrix", !.kind = "load",
                                     !.input = input,
                                     !.embeddings = VStack(input.rows)]]
    /\ UNCHANGED <<face_embeddings, face_meta, face_embeddings_normed>>
    /\ RaceFrame

\* line 272: self.face_embeddings = np.array(embeddings, dtype=float)
LStoreMatrix(t) ==
    /\ threads[t].pc = "store_matrix"
    /\ face_embeddings' = threads[t].embeddings
    /\ threads' = [threads EXCEPT ![t].pc = "store_meta"]
    /\ UNCHANGED <<face_meta, face_embeddings_normed>>
    /\ RaceFrame

\* line 273: self.face_meta = metas
LStoreMeta(t) ==
    /\ threads[t].pc = "store_meta"
    /\ face_meta' = CsvMeta(threads[t].input.rows)
    /\ threads' = [threads EXCEPT ![t].pc = "store_flag"]
    /\ UNCHANGED <<face_embeddings, face_embeddings_normed>>
    /\ RaceFrame

\* line 274: self._face_embeddings_normed = False
LStoreFlag(t) ==
    /\ threads[t].pc = "store_flag"
    /\ face_embeddings_normed' = "False"
    /\ threads' = [threads EXCEPT ![t].pc = "done"]
    /\ UNCHANGED <<face_embeddings, face_meta>>
    /\ RaceFrame

NextRace ==
    \E t \in ThreadIds :
        \/ \E query \in RaceQueries : QStart(t, query[1], query[2])
        \/ QCheck(t)
        \/ QRead(t)
        \/ QFlag(t)
        \/ QStore(t)
        \/ QSetFlag(t)
        \/ QDot(t)
        \/ \E input \in RaceLoadInputs : LStart(t, input)
        \/ LStoreMatrix(t)
        \/ LStoreMeta(t)
        \/ LStoreFlag(t)

SpecRace == InitRace /\ [][NextRace]_vars

-----------------------------------------------------------------------------
(* Properties of the string metrics, checked under SpecMetrics *)

\* C4 as stated: for every string s, the empty string included,
\* jaro_winkler_similarity(s,s), levenshtein_similarity(s,s) and
\* jaccard_similarity(s,s) return 1.0.
C4_IdenticalIsOne_AnyLength ==
    (called # "none" /\ s1 = s2) => returned = One

\* C4 as amended: for every non-empty string s the three metrics return 1.0
\* on (s,s); on the empty string they return 0.0.
C4_IdenticalIsOne_NonEmpty ==
    (called # "none" /\ s1 = s2) =>
        returned = (IF s1 = <<>> THEN Zero ELSE One)

C4_Witness ==
    /\ called = "jaccard"
    /\ s1 = <<"a">>
    /\ s2 = <<"a">>
    /\ returned = One

\* C5: each metric is symmetric: the value returned for (s1,s2) is the value
\* of the same metric on (s2,s1).
C5_Symmetric ==
    /\ called = "jaro_winkler" => returned = jaro_winkler_similarity(s2, s1)
    /\ called = "levenshtein"  => returned = levenshtein_similarity(s2, s1)
    /\ called = "jaccard"      => returned = jaccard_similarity(s2, s1)

C5_Witness ==
    /\ called = "jaro_winkler"
    /\ s1 = <<"a", "b", "a", "b">>
    /\ s2 = <<"b", "a", "a">>
    /\ returned # Zero
    /\ returned # One

\* C6: every value a metric returns lies in the closed interval [0,1].
C6_InUnitInterval ==
    called # "none" => InUnitInterval(returned)

C6_Witness ==
    /\ called = "jaro_winkler"
    /\ Len(s1) = 4
    /\ Len(s2) = 4
    /\ PrefixLoop(s1, s2, 1) = 3
    /\ RatLt(Zero, returned)
    /\ RatLt(returned, One)

Range(s) == {s[x] : x \in 1..Len(s)}

\* the strings one single-character deletion, substitution or insertion
\* (of a character of chars) away from s
SingleEdits(s, chars) ==
    {SubSeq(s, 1, k - 1) \o SubSeq(s, k + 1, Len(s)) : k \in 1..Len(s)}
    \cup {[s EXCEPT ![k] = c] : k \in 1..Len(s), c \in chars}
    \cup {SubSeq(s, 1, k) \o <<c>> \o SubSeq(s, k + 1, Len(s)) :
             k \in 0..Len(s), c \in chars}

\* the strings at most one edit away from a string of S, none longer than
\* maxlen (a shortest edit script can delete and substitute before it
\* inserts, so it never needs a string longer than the longer end)
GrowBall(S, chars, maxlen) ==
    S \cup {t \in UNION {SingleEdits(s, chars) : s \in S} : Len(t) <= maxlen}

\* the least number of single-character edits that turn a string of S into
\* target, counted from k
RECURSIVE EditSteps(_, _, _, _, _)
EditSteps(S, target, chars, maxlen, k) ==
    IF target \in S THEN k
    ELSE EditSteps(GrowBall(S, chars, maxlen), target, chars, maxlen, k + 1)

\* the minimum number of single-character edits that turn a into b
MinEdits(a, b) ==
    EditSteps({a}, b, Range(a) \cup Range(b), Max(Len(a), Len(b)), 0)

\* "kitten" is three edits from "sitting" and not two
KittenSittingIsThree ==
    /\ <<"s", "i", "t", "t", "e", "n">> \in SingleEdits(kitten, Range(sitting))
    /\ <<"s", "i", "t", "t", "i", "n">>
           \in SingleEdits(<<"s", "i", "t", "t", "e", "n">>, Range(sitting))
    /\ sitting \in SingleEdits(<<"s", "i", "t", "t", "i", "n">>, Range(sitting))
    /\ LET chars == Range(kitten) \cup Range(sitting)
       IN  sitting \notin GrowBall(GrowBall({kitten}, chars, 7), chars, 7)

\* C7: for non-empty a and b, levenshtein_similarity(a,b) is
\* 1 - d/max(len(a),len(b)) with d the minimum number of single-character
\* insertions, deletions and substitutions turning a into b; for
\* ("kitten","sitting") d is 3 and the result is 4/7.
C7_LevenshteinIsEditDistance ==
    (called = "levenshtein" /\ s1 # <<>> /\ s2 # <<>>) =>
        /\ (s1 \notin ReferenceStrings /\ s2 \notin ReferenceStrings) =>
              returned = RatSub(One, Rat(MinEdits(s1, s2), Max(Len(s1), Len(s2))))
        /\ (s1 = kitten /\ s2 = sitting) =>
              /\ KittenSittingIsThree
              /\ returned = RatSub(One, Rat(3, 7))
              /\ returned = <<4, 7>>

C7_Witness ==
    /\ called = "levenshtein"
    /\ s1 = kitten
    /\ s2 = sitting
    /\ returned = <<4, 7>>

\* C8: jaro_winkler_similarity("MARTHA","MARHTA") is 173/180 (about 0.961):
\* 6 matches, two out-of-order matched characters counted as half a
\* transposition each, Jaro 17/18, common prefix 3.
C8_MarthaReference ==
    (called = "jaro_winkler" /\ s1 = MARTHA /\ s2 = MARHTA) =>
        /\ returned = <<173, 180>>
        /\ 961 * returned[2] <= 1000 * returned[1]
        /\ 1000 * returned[1] < 962 * returned[2]
        /\ returned = RatAdd(<<17, 18>>, RatMul(<<3, 10>>, <<1, 18>>))

C8_Witness ==
    /\ called = "jaro_winkler"
    /\ s1 = MARTHA
    /\ s2 = MARHTA
    /\ JaroMatchState(s1, s2).matches = 6
    /\ TranspositionLoop(s1, s2, JaroMatchState(s1, s2), 1, 1, 0) = 2
    /\ PrefixLoop(s1, s2, 1) = 3

\* C9 as stated: for all strings a and b of length at most 1,
\* jaccard_similarity(a,b) returns 1.0.
C9_ShortIsOne_AnyLength ==
    (called = "jaccard" /\ Len(s1) <= 1 /\ Len(s2) <= 1) => returned = One

\* C9 as amended: for all strings a and b of length exactly 1 (equal or
\* not), jaccard_similarity(a,b) returns 1.0; when a or b is empty it
\* returns 0.0.
C9_ShortIsOne_NonEmpty ==
    (called = "jaccard" /\ Len(s1) <= 1 /\ Len(s2) <= 1) =>
        returned = (IF s1 = <<>> \/ s2 = <<>> THEN Zero ELSE One)

C9_Witness ==
    /\ called = "jaccard"
    /\ s1 = <<"a">>
    /\ s2 = <<"b">>
    /\ returned = One

-----------------------------------------------------------------------------
(* Properties of the weighted aggregates and of the field score set *)

\* the sum of weights[f] over the fields of S
RECURSIVE WeightOf(_, _)
WeightOf(S, weights) ==
    IF S = {} THEN Zero
    ELSE LET f == CHOOSE g \in S : TRUE
         IN  RatAdd(weights[f], WeightOf(S \ {f}, weights))

\* the sum of field_scores[f] * weights[f] over the fields of S
RECURSIVE ScoreTimesWeight(_, _, _)
ScoreTimesWeight(S, field_scores, weights) ==
    IF S = {} THEN Zero
    ELSE LET f == CHOOSE g \in S : TRUE
         IN  RatAdd(RatMul(field_scores[f], weights[f]),
                    ScoreTimesWeight(S \ {f}, field_scores, weights))

\* score is the weighted mean of field_scores over exactly the fields that
\* are both scored and weighted
IsMeanOverScored(score, field_scores, weights) ==
    LET common == DOMAIN field_scores \cap DOMAIN weights
    IN  RatMul(score, WeightOf(common, weights))
            = ScoreTimesWeight(common, field_scores, weights)

\* C1 as stated, checked under SpecBatch: for every pair the batch scored,
\* the weighted aggregate is the sum of score*weight divided by the sum of
\* the weights of the weighted fields scored for that pair (a missing field
\* is not counted as 0 against the full table).
C1_BatchAggregateOverScoredFields ==
    \A k \in DOMAIN scored :
        (DOMAIN scored[k].field_scores \cap DOMAIN BatchWeights # {}) =>
            IsMeanOverScored(scored[k].weighted_score, scored[k].field_scores,
                             BatchWeights)

CompositeReturned == response.status = "ok" /\ algorithm = "composite"

\* C2, checked under SpecPair: the composite similarity score is the sum of
\* score*weight over the sum of weights, both over exactly the fields in the
\* field score set and the weight table; it is 0 when no weighted field was
\* scored; when name is the only field scored it is the Jaro-Winkler
\* similarity of the lower-cased names.
C2_CompositeIsMeanOverScored ==
    CompositeReturned =>
        LET fs == response.field_scores
            common == DOMAIN fs \cap DOMAIN PairWeights
        IN  /\ common = {} => response.similarity_score = Zero
            /\ common # {} =>
                  IsMeanOverScored(response.similarity_score, fs, PairWeights)
            /\ DOMAIN fs = {"name"} =>
                  response.similarity_score =
                      jaro_winkler_similarity(Lower(record1.name), Lower(record2.name))

C2_Witness ==
    /\ CompositeReturned
    /\ DOMAIN response.field_scores = {"name"}
    /\ record1.name = NehaKumar
    /\ record2.name = NehaKumari
    /\ RatLt(Zero, response.similarity_score)
    /\ RatLt(response.similarity_score, One)

\* a record supplies a field when the field is given and not empty
Supplies(r, f) == r[f] # None /\ Len(r[f]) > 0

\* C3, checked under SpecPair: the field score set has an entry for a field
\* if and only if both records supply the field, and every entry is in [0,1].
C3_ScoredIffBothSupply ==
    CompositeReturned =>
        /\ DOMAIN response.field_scores \subseteq Fields
        /\ \A f \in Fields :
              f \in DOMAIN response.field_scores
                  <=> (Supplies(record1, f) /\ Supplies(record2, f))
        /\ \A f \in DOMAIN response.field_scores :
              InUnitInterval(response.field_scores[f])

C3_Witness ==
    /\ CompositeReturned
    /\ record1.email = Email1
    /\ record2.email = None
    /\ record1.phone = Phone1
    /\ record2.phone = PhoneNoDigit
    /\ "email" \notin DOMAIN response.field_scores
    /\ "phone" \in DOMAIN response.field_scores
    /\ response.field_scores["phone"] = Zero

-----------------------------------------------------------------------------
(* Properties of the pair enumeration, checked under SpecBatch *)

\* the positions k of scored whose pair is <<a, b>>
ScoredAt(a, b) == {k \in DOMAIN scored : scored[k].first = a /\ scored[k].second = b}

\* the entries of scored for which a candidate was appended, in order
RECURSIVE EmittedOf(_)
EmittedOf(log) ==
    IF log = <<>> THEN <<>>
    ELSE IF Head(log).emitted THEN <<Head(log)>> \o EmittedOf(Tail(log))
         ELSE EmittedOf(Tail(log))

\* C10: no pair is scored twice, a record is never scored against itself or
\* in the order (later, earlier); when the handler returns every pair of
\* positions i < j was scored exactly once; the candidates are the emitted
\* pairs in order, each naming the earlier record as entity1 and the later as
\* entity2, and there are at most n(n-1)/2 of them.
C10_EachPairOnce ==
    LET n == Len(entities)
        emitted == EmittedOf(scored)
    IN  /\ \A k \in DOMAIN scored :
              /\ 0 <= scored[k].first
              /\ scored[k].first < scored[k].second
              /\ scored[k].second < n
              /\ Cardinality(ScoredAt(scored[k].first, scored[k].second)) = 1
        /\ pc = "done" =>
              \A a, b \in 0..(n - 1) : a < b => Cardinality(ScoredAt(a, b)) = 1
        /\ Len(results) = Len(emitted)
        /\ \A k \in DOMAIN results :
              /\ results[k].entity1_id = entities[emitted[k].first + 1].entity_id
              /\ results[k].entity2_id = entities[emitted[k].second + 1].entity_id
        /\ 2 * Len(results) <= n * (n - 1)

C10_Witness ==
    /\ pc = "done"
    /\ Len(entities) = 3
    /\ Len(scored) = 3
    /\ Len(results) = 1

\* C11: a candidate is emitted for a scored pair if and only if the pair's
\* weighted_score is strictly greater than 0.7, so there are as many
\* candidates as pairs above 0.7; a candidate is "high" if and only if its
\* score is strictly greater than 0.9 and "medium" otherwise.
C11_EmittedIffAboveThreshold ==
    LET emitted == EmittedOf(scored)
    IN  /\ \A k \in DOMAIN scored :
              scored[k].emitted <=> RatLt(<<7, 10>>, scored[k].weighted_score)
        /\ Len(results) =
              Cardinality({k \in DOMAIN scored : RatLt(<<7, 10>>, scored[k].weighted_score)})
        /\ Len(results) = Len(emitted)
        /\ \A k \in DOMAIN results :
              /\ results[k].similarity_score = emitted[k].weighted_score
              /\ results[k].match_type \in {"high", "medium"}
              /\ results[k].match_type = "high"
                    <=> RatLt(<<9, 10>>, results[k].similarity_score)

C11_Witness ==
    /\ pc = "done"
    /\ \E k \in DOMAIN scored :
          scored[k].weighted_score = <<7, 10>> /\ ~scored[k].emitted
    /\ \E k \in DOMAIN results :
          results[k].similarity_score = <<9, 10>> /\ results[k].match_type = "medium"
    /\ Len(results) < Len(scored)

\* a batch in which a candidate above 0.9 is labelled "high"
C11_HighReached ==
    /\ pc = "done"
    /\ \E k \in DOMAIN results :
          results[k].similarity_score = One /\ results[k].match_type = "high"

-----------------------------------------------------------------------------
(* Properties of match_face_embedding, checked under SpecFace *)

\* the last operation was a query
Queried == last_op.op = "match"

\* a gallery is loaded
GalleryLoaded == face_embeddings.loaded /\ face_meta # <<>>

\* C12: in both variants a query whose length differs from the dimension of
\* the loaded gallery is answered with confidence 0, no best match and an
\* empty match list, and not with a raised error.
C12_MismatchRejected ==
    (Queried /\ GalleryLoaded /\ Dim(last_op.arg.query) # face_embeddings.dim)
        => match_result = EmptyResult

\* C13: in both variants a query of zero norm is answered with confidence 0,
\* no best match and an empty match list, whatever the threshold and the
\* loaded gallery.
C13_ZeroQueryRejected ==
    (Queried /\ GalleryLoaded /\ IsZeroVec(last_op.arg.query))
        => match_result = EmptyResult

\* C14: while no gallery is loaded (never loaded, or cleared by a failed
\* load), every query returns confidence 0, no best match and an empty match
\* list, and does not raise.
C14_NoGalleryIsEmptyResult ==
    (Queried /\ ~GalleryLoaded) => match_result = EmptyResult

\* a non-zero query at threshold 0 after a failed load has cleared a gallery
\* read from a flat file
C14_Witness ==
    /\ Queried
    /\ variant = "simple"
    /\ ~GalleryLoaded
    /\ embedding_dim # FallbackDimSimple
    /\ ~IsZeroVec(last_op.arg.query)
    /\ last_op.arg.threshold = Zero
    /\ match_result = EmptyResult

\* the same in the main service, before any load has found data
C14_WitnessMain ==
    /\ Queried
    /\ variant = "main"
    /\ ~GalleryLoaded
    /\ ~IsZeroVec(last_op.arg.query)
    /\ match_result = EmptyResult

\* the last query was scored: a gallery is loaded, the query is not zero and
\* has the dimension of the gallery
Scored == /\ Queried
          /\ GalleryLoaded
          /\ ~IsZeroVec(last_op.arg.query)
          /\ Dim(last_op.arg.query) = face_embeddings.dim
          /\ match_result.status = "ok"

\* v scaled to unit length (the zero vector has no direction and stays)
UnitOf(v) == IF IsZeroVec(v) THEN v ELSE DivideByNorm(v)

\* the cosine similarity of gallery row k and the last query (signed square)
Cosine(k) == DotSq(UnitOf(face_embeddings.rows[k]), UnitOf(last_op.arg.query))

\* the gallery rows at or above the threshold of the last query
RowsAtOrAbove ==
    {k \in DOMAIN face_embeddings.rows :
        RatLeq(SignedSquare(last_op.arg.threshold), Cosine(k))}

\* the gallery row a match entry was copied from
RowOf(entry) == CHOOSE k \in DOMAIN face_meta : face_meta[k].face_id = entry.face_id

ExactlyRowsAtOrAbove ==
    LET ms == match_result.matches
    IN  /\ Len(ms) = Cardinality(RowsAtOrAbove)
        /\ {RowOf(ms[n]) : n \in DOMAIN ms} = RowsAtOrAbove
        /\ \A a, b \in DOMAIN ms :
              a < b => /\ RatLeq(Cosine(RowOf(ms[b])), Cosine(RowOf(ms[a])))
                       /\ Cosine(RowOf(ms[a])) = Cosine(RowOf(ms[b]))
                             => RowOf(ms[a]) < RowOf(ms[b])

\* C15: for a query that is scored, the match list holds exactly the gallery
\* rows whose cosine similarity to the query is at least the threshold, each
\* once, by non-increasing similarity, equal similarities in gallery order.
C15_ExactlyRowsAtOrAboveSorted == Scored => ExactlyRowsAtOrAbove

\* the same for the main service alone
C15_InMain == (Scored /\ variant = "main") => ExactlyRowsAtOrAbove

\* two rows of one direction tie and keep their order; a later row of higher
\* similarity is moved to the front
C15_WitnessTie ==
    /\ Scored /\ variant = "main"
    /\ Len(match_result.matches) = 2
    /\ match_result.matches[1].similarity = match_result.matches[2].similarity

C15_WitnessReordered ==
    /\ Scored /\ variant = "main"
    /\ Len(match_result.matches) = 2
    /\ RowOf(match_result.matches[1]) = 2
    /\ Cardinality(RowsAtOrAbove) = 2

C15_WitnessFiltered ==
    /\ Scored /\ variant = "main"
    /\ Len(match_result.matches) = 1
    /\ Len(face_meta) = 2

\* C16: in every match result best_match is the first entry of the match
\* list, which no entry exceeds in similarity and which is the earliest
\* gallery row among the entries equal to it, and confidence is its
\* similarity; with no match best_match is absent and confidence is 0.
C16_BestIsFirstEntry ==
    (Queried /\ match_result.status = "ok") =>
        LET ms == match_result.matches
        IN  IF ms # <<>>
            THEN /\ match_result.best_match = ms[1]
                 /\ match_result.confidence = ms[1].similarity
                 /\ \A n \in DOMAIN ms :
                       /\ RatLeq(ms[n].similarity, ms[1].similarity)
                       /\ ms[n].similarity = ms[1].similarity
                             => RowOf(ms[1]) <= RowOf(ms[n])
            ELSE /\ match_result.best_match = NoBest
                 /\ match_result.confidence = Zero

\* the second gallery row is the best of two matches of differing similarity
C16_Witness ==
    /\ Scored
    /\ Len(match_result.matches) = 2
    /\ match_result.best_match.face_id = "F2"
    /\ match_result.confidence = match_result.matches[1].similarity
    /\ match_result.matches[1].similarity # match_result.matches[2].similarity

\* a scored query that no row clears
C16_WitnessNone ==
    /\ Scored
    /\ match_result.matches = <<>>
    /\ match_result.best_match = NoBest
    /\ match_result.confidence = Zero

\* C17: in both variants, for a gallery loaded by any path, a query with
\* threshold 1.01 returns no matches, and no reported similarity exceeds 1.0.
C17_NothingAboveOne ==
    Queried =>
        /\ last_op.arg.threshold = Rat(101, 100) => match_result.matches = <<>>
        /\ \A n \in DOMAIN match_result.matches :
              RatLeq(match_result.matches[n].similarity, One)

\* the same for the main service alone
C17_InMain == variant = "main" => C17_NothingAboveOne

-----------------------------------------------------------------------------
(* Properties of load_face_embeddings, checked under SpecFace *)

\* the last operation was a load of the main service that found a flat file
\* whose embedding column holds vectors of differing dimension
MixedLoad ==
    /\ variant = "main"
    /\ last_op.op = "load"
    /\ last_op.arg.csv = "embed_col"
    /\ last_op.arg.mixed

\* C18: a load of the main service whose entries carry vectors of differing
\* dimension is rejected as a whole: matrix, metadata and normalization flag
\* are after it what they were before it.
C18_MixedLoadChangesNothing ==
    [][MixedLoad' => UNCHANGED <<face_embeddings, face_meta, face_embeddings_normed>>]_vars

\* a mixed load has run on a gallery that a query had normalized, and the
\* gallery of two rows is still there
C18_Witness ==
    /\ MixedLoad
    /\ GalleryLoaded
    /\ Len(face_meta) = 2
    /\ face_embeddings_normed = "True"
    /\ \A k \in DOMAIN face_embeddings.rows :
          Dim(face_embeddings.rows[k]) = face_embeddings.dim

-----------------------------------------------------------------------------
(* Properties of the embedding calls, checked under SpecEmbed *)

\* C19: two embedding calls with the same payload and the same explicit dim
\* return the same vector, of exactly dim components, whatever loads, queries
\* and embedding calls lie between them.
C19_Deterministic ==
    \A a, b \in DOMAIN generated :
        (generated[a].dim # NoDim
         /\ generated[a].payload = generated[b].payload
         /\ generated[a].dim = generated[b].dim)
            => /\ generated[a].vector = generated[b].vector
               /\ Dim(generated[a].vector) = generated[a].dim

\* two calls with one payload and one explicit dim, the first without a
\* gallery and the second with a gallery of another dimension, and a query
\* after them
C19_Witness ==
    /\ Len(generated) >= 2
    /\ Queried
    /\ \E a, b \in DOMAIN generated :
          /\ a < b
          /\ generated[a].dim # NoDim
          /\ generated[a].payload = generated[b].payload
          /\ generated[a].dim = generated[b].dim
          /\ ~generated[a].loaded
          /\ generated[b].loaded
          /\ generated[b].gallery_dim # generated[b].dim
          /\ generated[a].vector = generated[b].vector

\* the fallback dimension of the running variant
FallbackDim == IF variant = "main" THEN FallbackDimMain ELSE FallbackDimSimple

\* every embedding generated without a dim has the dimension of the gallery
\* loaded at the time, and the fallback dimension if none was loaded
ImplicitDimFollowsGallery ==
    \A k \in DOMAIN generated :
        generated[k].dim = NoDim =>
            Dim(generated[k].vector) =
                IF generated[k].loaded THEN generated[k].gallery_dim ELSE FallbackDim

\* the last query sent an embedding that the service generated without a dim
\* for the gallery that is loaded now
QueriedOwnEmbedding ==
    /\ Queried
    /\ \E k \in DOMAIN generated :
          /\ generated[k].dim = NoDim
          /\ generated[k].vector = last_op.arg.query
          /\ generated[k].loaded = face_embeddings.loaded
          /\ generated[k].gallery_dim = face_embeddings.dim

\* such a query is not rejected for its dimension
OwnEmbeddingFits ==
    QueriedOwnEmbedding =>
        /\ match_result.status = "ok"
        /\ GalleryLoaded => Dim(last_op.arg.query) = face_embeddings.dim

\* C20: after any sequence of loads an embedding generated without a dim has
\* the dimension of the loaded gallery, or the fallback dimension when none
\* is loaded; hence it is not rejected for its dimension when it is sent as a
\* query against the current gallery.
C20_ImplicitDimIsGalleryDim == ImplicitDimFollowsGallery /\ OwnEmbeddingFits

\* the same for the main service alone
C20_InMain == variant = "main" => C20_ImplicitDimIsGalleryDim

-----------------------------------------------------------------------------
(* Properties of the phone comparison, checked under SpecPair *)

IsDigit(c) == c \in {"0", "1", "2", "3", "4", "5", "6", "7", "8", "9"}

\* the digits of a phone value, in order
DigitSequence(s) == SelectSeq(s, IsDigit)

\* both records supply a phone value and the digits of the two values, in
\* order, are the same
SamePhoneDigits ==
    /\ CompositeReturned
    /\ Truthy(record1.phone) /\ Truthy(record2.phone)
    /\ DigitSequence(record1.phone) = DigitSequence(record2.phone)

\* C21 as stated: two supplied phone values with identical digit sequences
\* have phone score 1.0, whatever other characters they contain.
C21_SameDigitsIsOne_AnyPhone ==
    SamePhoneDigits => response.field_scores["phone"] = One

\* C21: two supplied phone values with identical digit sequences of at least
\* one digit have phone score 1.0, whatever other characters they contain;
\* two supplied values without any digit have phone score 0.0.
C21_SameDigitsIsOne_WithDigits ==
    SamePhoneDigits =>
        response.field_scores["phone"] =
            IF DigitSequence(record1.phone) # <<>> THEN One ELSE Zero

\* "+91-98" against "+9198"
C21_Witness ==
    /\ SamePhoneDigits
    /\ record1.phone = Phone1
    /\ record2.phone = Phone2
    /\ record1.phone # record2.phone
    /\ response.field_scores["phone"] = One

\* "+" against "-"
C21_WitnessNoDigits ==
    /\ SamePhoneDigits
    /\ record1.phone = PhonePlus
    /\ record2.phone = PhoneNoDigit
    /\ response.field_scores["phone"] = Zero

-----------------------------------------------------------------------------
(* Properties of the normalization of the gallery, checked under SpecFace *)

\* the last query reached np.dot with a query of the gallery's dimension; the
\* rows it multiplied are the rows stored now (the main service stores the
\* matrix it multiplies, the simple service does not change its matrix)
DotTaken ==
    /\ Queried
    /\ GalleryLoaded
    /\ Dim(last_op.arg.query) = face_embeddings.dim
    /\ variant = "main" => ~IsZeroVec(last_op.arg.query)

\* C22: in both variants and for every way of loading, every gallery row that
\* takes part in the dot product of a query is unit-length or all-zero at
\* that moment.
C22_ScoredRowsAreUnitOrZero ==
    DotTaken => \A k \in DOMAIN face_embeddings.rows :
                    IsUnitOrZero(face_embeddings.rows[k])

\* the same for the main service alone
C22_InMain == variant = "main" => C22_ScoredRowsAreUnitOrZero

\* in the main service a flat-file row of length 2 and a zero row have been
\* scored: the first is unit length now and the zero row is still zero
C22_WitnessMain ==
    /\ DotTaken /\ variant = "main"
    /\ last_op.arg.threshold = Zero
    /\ Len(face_embeddings.rows) = 2
    /\ face_embeddings.rows[1] = DivideByNorm(FromInts(<<2, 0>>, One))
    /\ IsZeroVec(face_embeddings.rows[2])

-----------------------------------------------------------------------------
(* Properties of calls that run at the same time, checked under SpecRace *)

\* what the query of a thread returns when it runs alone on the gallery that
\* one load stored
AloneResult(th, input) ==
    MainMatchResult(th.q, th.threshold, RawMatrix(input.rows),
                    CsvMeta(input.rows), "False")[1]

ReturnedQuery(t) == threads[t].kind = "query" /\ threads[t].pc = "done"

\* C23: in every interleaving of the steps of load_face_embeddings with the
\* steps of match_face_embedding a query scores the matrix, the metadata and
\* the normalization flag of one and the same load: it returns what it
\* returns alone on the gallery of one of the loads.
C23_QuerySeesOneLoad ==
    \A t \in ThreadIds :
        ReturnedQuery(t) =>
            \E input \in {FreshInput} \cup RaceLoadInputs :
                threads[t].result = AloneResult(threads[t], input)

NoLoadRuns == \A t \in ThreadIds : threads[t].kind # "load"

\* each query returns what it returns alone on the fresh gallery
EachAsAlone ==
    \A t \in ThreadIds :
        ReturnedQuery(t) => threads[t].result = AloneResult(threads[t], FreshInput)

\* a thread that normalizes has read the rows as the load stored them
NormalizedFromRaw ==
    \A t \in ThreadIds :
        threads[t].pc \in {"store", "setflag"} =>
            threads[t].read = RawMatrix(FreshInput.rows)

\* when all calls have returned and one of them was scored, the stored matrix
\* is the normalized gallery and the flag is true
EndsNormalized ==
    (/\ \A t \in ThreadIds : threads[t].pc \in {"idle", "done"}
     /\ \E t \in ThreadIds : ReturnedQuery(t) /\ ~IsZeroVec(threads[t].q))
        => /\ face_embeddings = NormalizeRows(RawMatrix(FreshInput.rows))
           /\ face_embeddings_normed = "True"

\* C28: queries that run at the same time on a freshly loaded gallery, their
\* statements interleaved in any way, each return what they return alone; no
\* query normalizes rows that are normalized already, and at the end the
\* stored matrix is the once-normalized gallery with the flag true.
C28_ConcurrentQueriesAsAlone ==
    NoLoadRuns => EachAsAlone /\ NormalizedFromRaw /\ EndsNormalized

C28_ResultsOnly == NoLoadRuns => EachAsAlone

C28_NormalizedOnceOnly == NoLoadRuns => NormalizedFromRaw

C28_EndOnly == NoLoadRuns => EndsNormalized

-----------------------------------------------------------------------------
(* Properties of the short-string case of Jaro-Winkler, checked under
   SpecMetrics *)

LongerLength == IF Len(s1) >= Len(s2) THEN Len(s1) ELSE Len(s2)

\* some character of s1 equals a character of s2 at most `window` positions
\* away
SharesWithin(window) ==
    \E x \in 1..Len(s1), y \in 1..Len(s2) :
        /\ s1[x] = s2[y]
        /\ x - y <= window
        /\ y - x <= window

\* C24: for non-empty strings of longer length at most 3, Jaro-Winkler is 1.0
\* for equal strings and 0.0 otherwise, with no partial credit; from a longer
\* length of 4 on the window is at least 1 and the windowed matching is used:
\* unequal strings score above 0 exactly when they share a character within
\* the window.
C24_ShortStringsByEquality ==
    (called = "jaro_winkler" /\ s1 # <<>> /\ s2 # <<>>) =>
        /\ LongerLength <= 3 =>
              /\ LongerLength \div 2 - 1 < 1
              /\ returned = IF s1 = s2 THEN One ELSE Zero
        /\ LongerLength >= 4 =>
              /\ LongerLength \div 2 - 1 >= 1
              /\ s1 # s2 => (returned # Zero <=> SharesWithin(LongerLength \div 2 - 1))
              /\ s1 # s2 => returned # One

\* two strings of length 3 that share a prefix of two characters score 0
C24_Witness ==
    /\ called = "jaro_winkler"
    /\ s1 = <<"a", "a", "b">>
    /\ s2 = <<"a", "a", "a">>
    /\ returned = Zero

\* two strings of length 4 that share a prefix of three characters score
\* between 0 and 1
C24_WitnessLong ==
    /\ called = "jaro_winkler"
    /\ s1 = <<"a", "a", "a", "b">>
    /\ s2 = <<"a", "a", "a", "a">>
    /\ returned # Zero
    /\ returned # One

-----------------------------------------------------------------------------
(* Properties of the pairing of matrix and metadata, checked under SpecFace *)

Parallel ==
    face_embeddings.loaded => Len(face_embeddings.rows) = Len(face_meta)

\* a query of the dimension of the gallery
FittingQuery ==
    /\ Queried
    /\ face_embeddings.loaded
    /\ Dim(last_op.arg.query) = face_embeddings.dim

\* C25: in both variants, after any loads and queries, either no gallery is
\* loaded or the matrix has as many rows as there are metadata records, and
\* a query of the dimension of the gallery never fails on indexing the
\* metadata.
C25_MatrixAndMetaParallel ==
    /\ Parallel
    /\ FittingQuery => match_result.status = "ok"

\* the pairing holds in SimpleFaceService
C25_InSimple == variant = "simple" => C25_MatrixAndMetaParallel

\* SimpleFaceService holds a gallery of two rows and has answered a query
C25_WitnessSimple ==
    /\ variant = "simple"
    /\ FittingQuery
    /\ Len(face_meta) = 2
    /\ match_result.matches # <<>>

-----------------------------------------------------------------------------
(* Properties of the normalization flag of MLService, checked under
   SpecFace *)

\* the flag is true only over a matrix of unit or zero rows
FlagSound ==
    (variant = "main" /\ face_embeddings_normed = "True" /\ face_embeddings.loaded)
        => \A k \in DOMAIN face_embeddings.rows :
               IsUnitOrZero(face_embeddings.rows[k])

FlatFileLayouts == {"embed_col", "embed_col_2d", "numeric"}

\* a load that stored the rows of a flat file
StoredFlatFile ==
    /\ variant = "main"
    /\ last_op'.op = "load"
    /\ last_op'.arg.csv \in FlatFileLayouts
    /\ <<face_embeddings, face_meta>>' # <<face_embeddings, face_meta>>

\* the flag became true
FlagRaised ==
    /\ variant = "main"
    /\ face_embeddings_normed # "True"
    /\ face_embeddings_normed' = "True"

\* a query on a loaded gallery, or a load that built the gallery from images
NormalizingStep ==
    \/ /\ last_op'.op = "match"
       /\ face_embeddings.loaded
       /\ face_embeddings' = NormalizeRows(face_embeddings)
    \/ /\ last_op'.op = "load"
       /\ last_op'.arg.csv = "missing"
       /\ face_embeddings'.loaded

\* C26: in the main service the flag _face_embeddings_normed is true only if
\* every row of the stored matrix is unit-length or all-zero; a load that
\* stores the rows of a flat file leaves the flag false, and the flag becomes
\* true only by a query's normalization or by a gallery built from images.
C26_FlagMeansNormalized ==
    /\ []FlagSound
    /\ [][StoredFlatFile => face_embeddings_normed' = "False"]_vars
    /\ [][FlagRaised => NormalizingStep]_vars

\* a query has normalized a row of a flat file that was not of unit length
C26_Witness ==
    /\ variant = "main"
    /\ Queried
    /\ face_embeddings_normed = "True"
    /\ \E k \in DOMAIN face_embeddings.rows :
           /\ face_embeddings.rows[k].w = <<1, 1>>
           /\ NormSq(face_embeddings.rows[k]) = One

\* a load of a flat file has stored a row that is not of unit length, and
\* the flag is false
C26_WitnessReset ==
    /\ variant = "main"
    /\ last_op.op = "load"
    /\ last_op.arg.csv = "embed_col"
    /\ face_embeddings_normed = "False"
    /\ \E k \in DOMAIN face_embeddings.rows : ~IsUnitOrZero(face_embeddings.rows[k])

-----------------------------------------------------------------------------
(* Properties of repeated queries, checked under SpecFace *)

\* the query just answered is asked again
RepeatedQuery == Queried /\ last_op' = last_op

\* a query is answered
QueryStep == last_op'.op = "match"

SameRowsInOrder ==
    /\ face_embeddings'.loaded = face_embeddings.loaded
    /\ face_embeddings'.dim = face_embeddings.dim
    /\ Len(face_embeddings'.rows) = Len(face_embeddings.rows)
    /\ \A k \in DOMAIN face_embeddings.rows :
           face_embeddings'.rows[k].w = face_embeddings.rows[k].w

\* C27: with no load in between, the same query (same vector, same
\* threshold) asked again returns the same match list, best match and
\* confidence, also when the first query normalized the gallery; and a
\* query changes neither the metadata records nor the number or order of
\* the rows of the gallery.
C27_RepeatedQuerySameResult ==
    /\ [][RepeatedQuery => match_result' = match_result]_vars
    /\ [][QueryStep => (face_meta' = face_meta /\ SameRowsInOrder)]_vars

\* the main service has answered, with matches, the query that normalized a
\* row of a flat file
C27_Witness ==
    /\ variant = "main"
    /\ Queried
    /\ match_result.matches # <<>>
    /\ face_embeddings_normed = "True"
    /\ \E k \in DOMAIN face_embeddings.rows :
           /\ face_embeddings.rows[k].w = <<1, 0>>
           /\ face_embeddings.rows[k] # FromInts(<<2, 0>>, One)
           /\ face_meta[k].face_id = match_result.best_match.face_id

\* SimpleFaceService has answered a query with matches
C27_WitnessSimple ==
    /\ variant = "simple"
    /\ Queried
    /\ Len(match_result.matches) = 2

====
